---- MODULE Spec2Model ----
(***************************************************************************)
(* Parquet modular encryption: the encrypted-footer read path of           *)
(* cpp/src/parquet/file_reader.cc (SerializedFile::ParseMetaData,          *)
(* SerializedRowGroup::GetColumnPageReader) together with the property     *)
(* objects of cpp/src/parquet/encryption_properties.h.                     *)
(*                                                                         *)
(* Byte strings are sequences of byte values.  Keys are short byte strings *)
(* standing for the 16-byte keys of the examples.  The AEAD primitive is   *)
(* symbolic: a ciphertext records the key, the AAD and the nonce it was    *)
(* produced with, and decryption checks them.                              *)
(***************************************************************************)
EXTENDS Integers, Sequences, FiniteSets, TLC

VARIABLES file, written, reader, columns_read, builder, call, aes, io, page_reader

vars == <<file, written, reader, columns_read, builder, call, aes, io, page_reader>>

\* the file and its reader; the property builder and its last call
reader_vars == <<file, written, reader, columns_read>>

builder_vars == <<builder, call>>

\* the pair of cipher instances and their last operation
crypto_vars == <<aes, io>>

\* the reader of the pages of one column chunk
page_vars == <<page_reader>>

-----------------------------------------------------------------------------
(* Fixed-width integers.  A C++ integer is held as two limbs <<hi, lo>>    *)
(* with value hi * 2^16 + lo and 0 <= lo < 2^16, so that the whole range   *)
(* of uint32_t and the int64_t differences of ParseMetaData are exact.     *)

Limb == 2 ^ 16

Norm(hi, lo) == <<hi + (lo \div Limb), lo % Limb>>

ToWide(n) == Norm(0, n)

WideAdd(a, b) == Norm(a[1] + b[1], a[2] + b[2])

WideSub(a, b) == Norm(a[1] - b[1], a[2] - b[2])

WideLess(a, b) == a[1] < b[1] \/ (a[1] = b[1] /\ a[2] < b[2])

WideLeq(a, b) == a = b \/ WideLess(a, b)

WideNeg(a) == a[1] < 0

\* conversion to uint32_t: reduction modulo 2^32
WrapU32(a) == <<a[1] % Limb, a[2]>>

\* uint32_t + uint32_t, as C++ evaluates it (modulo 2^32)
U32Add(a, b) == WrapU32(WideAdd(a, b))

\* uint32_t - uint32_t, as C++ evaluates it (modulo 2^32)
U32Sub(a, b) == WrapU32(WideSub(a, b))

-----------------------------------------------------------------------------
(* Constants of file_reader.cc, encryption_properties.h and crypto.h.      *)

DEFAULT_FOOTER_READ_SIZE == 64 * 1024

FOOTER_SIZE == 8

PARQUET_MAGIC == "PAR1"

PARQUET_EMAGIC == "PARE"

AAD_FILE_UNIQUE_LENGTH == 8

GCMTagLength == 16

NonceLength == 12

DEFAULT_CHECK_SIGNATURE == TRUE

AES_GCM_V1 == "AES_GCM_V1"

AES_GCM_CTR_V1 == "AES_GCM_CTR_V1"

\* module types
Footer == 0

ColumnMetaData == 1

DataPage == 2

DictionaryPage == 3

DataPageHeader == 4

DictionaryPageHeader == 5

-----------------------------------------------------------------------------
(* Byte strings of the examples (encryption-interop-tests.cc).  A key is   *)
(* 16 bytes; two keys differ in their bytes.                               *)

KeyOf(b) == [i \in 1..16 |-> b]

kFooterEncryptionKey == KeyOf(0)

kColumnEncryptionKey1 == KeyOf(1)

kColumnEncryptionKey2 == KeyOf(2)

\* key ids "kf", "kc1", "kc2", as key metadata bytes
kf == <<107, 102>>

kc1 == <<107, 99, 49>>

kc2 == <<107, 99, 50>>

\* aad prefixes: none, the file name of the examples, and another one
NoBytes == <<>>

fileName == <<116>>

otherName == <<111>>

\* schema of the examples, by column ordinal
Schema == <<"int32_field", "float_field", "double_field">>

NumColumns == Len(Schema)

ColumnOrdinals == 0..(NumColumns - 1)

PathOf(i) == Schema[i + 1]

-----------------------------------------------------------------------------
(* Module AAD (crypto.h: createModuleAAD, createFooterAAD).                *)

Le16(n) == <<n % 256, (n \div 256) % 256>>

createFooterAAD(aad_prefix_bytes) == aad_prefix_bytes \o <<Footer>>

createModuleAAD(fileAAD, module_type, row_group_ordinal, column_ordinal, page_ordinal) ==
  IF module_type = Footer
    THEN createFooterAAD(fileAAD)
    ELSE fileAAD \o <<module_type>> \o Le16(row_group_ordinal) \o Le16(column_ordinal)
           \o (IF page_ordinal < 0 THEN <<>> ELSE Le16(page_ordinal))

-----------------------------------------------------------------------------
(* The AEAD primitive (crypto.h: AesEncryptor, AesDecryptor), symbolic.    *)
(* GCM binds key, nonce and AAD; CTR binds key and nonce only.             *)

Garbage == <<-1>>

PlainModule(pt) ==
  [enc |-> FALSE, gcm |-> FALSE, key |-> NoBytes, aad |-> NoBytes, nonce |-> 0, pt |-> pt]

\* a metadata instance is GCM whatever the file cipher; a data instance is
\* CTR under AES_GCM_CTR_V1
IsGcm(alg_id, metadata) == metadata \/ alg_id = AES_GCM_V1

AesEncrypt(alg_id, metadata, key, aad, nonce, pt) ==
  [enc |-> TRUE, gcm |-> IsGcm(alg_id, metadata), key |-> key,
   aad |-> IF IsGcm(alg_id, metadata) THEN aad ELSE NoBytes, nonce |-> nonce, pt |-> pt]

AeadFailure == "AeadFailure"

AesDecrypt(alg_id, metadata, box, key, aad) ==
  IF IsGcm(alg_id, metadata)
    THEN IF box.enc /\ box.gcm /\ box.key = key /\ box.aad = aad
           THEN [err |-> "", pt |-> box.pt]
           ELSE [err |-> AeadFailure, pt |-> Garbage]
    ELSE IF box.enc /\ ~box.gcm /\ box.key = key
           THEN [err |-> "", pt |-> box.pt]
           ELSE [err |-> "", pt |-> Garbage]

\* the 28-byte trailer of a plaintext footer: nonce(12) || tag(16)
SignedFooterEncrypt(footer, key, aad, nonce) ==
  [nonce |-> nonce, tag |-> [key |-> key, aad |-> aad, nonce |-> nonce, footer |-> footer]]

-----------------------------------------------------------------------------
(* File encryption properties as built (encryption_properties.h,           *)
(* FileEncryptionProperties), and the files a writer produces from them.   *)

NoColumnProperties == [p \in {} |-> NoBytes]

ColumnProps(key, key_metadata) == [key |-> key, key_metadata |-> key_metadata]

\* tests #2..#6 of InteropWriteTests: two columns with their own keys
TwoKeyColumns ==
  [p \in {"double_field", "float_field"} |->
     IF p = "double_field" THEN ColumnProps(kColumnEncryptionKey1, kc1)
                           ELSE ColumnProps(kColumnEncryptionKey2, kc2)]

\* one column with its own key, one encrypted column without a key
KeyAndFooterKeyColumns ==
  [p \in {"double_field", "int32_field"} |->
     IF p = "double_field" THEN ColumnProps(kColumnEncryptionKey1, kc1)
                           ELSE ColumnProps(NoBytes, NoBytes)]

EncryptionColumnMaps == {NoColumnProperties, TwoKeyColumns, KeyAndFooterKeyColumns}

FileEncryptionPropertiesSet ==
  { [cipher |-> c, footer_key |-> kFooterEncryptionKey, footer_key_metadata |-> kf,
     encrypted_footer |-> ef, aad_prefix |-> ap[1], store_aad_prefix_in_file |-> ap[2],
     column_properties |-> cols] :
      c \in {AES_GCM_V1, AES_GCM_CTR_V1}, ef \in BOOLEAN,
      ap \in {<<NoBytes, FALSE>>, <<fileName, TRUE>>, <<fileName, FALSE>>},
      cols \in EncryptionColumnMaps }

\* the 8 bytes a writer draws for one file
aad_file_unique == [i \in 1..AAD_FILE_UNIQUE_LENGTH |-> 85]

\* FileEncryptionProperties::FileEncryptionProperties: the algorithm descriptor
EncryptionAlgorithmOf(P) ==
  [algorithm |-> P.cipher,
   aad |-> [aad_prefix |-> IF P.aad_prefix # NoBytes /\ P.store_aad_prefix_in_file
                             THEN P.aad_prefix ELSE NoBytes,
            aad_file_unique |-> aad_file_unique,
            supply_aad_prefix |-> P.aad_prefix # NoBytes /\ ~P.store_aad_prefix_in_file]]

\* FileEncryptionProperties::file_aad
FileAadOf(P) == P.aad_prefix \o aad_file_unique

NumRowGroups == 2

RowGroupOrdinals == 0..(NumRowGroups - 1)

NumPages == 2

PageValues(rg, col, page) == <<100 * rg + 10 * col + page>>

ColumnValues(rg, col) == [p \in 1..NumPages |-> PageValues(rg, col, p - 1)]

\* FileEncryptionProperties::column_properties(path): encrypted with the
\* footer key when no map was set; not encrypted when absent from the map
ColumnIsEncrypted(P, path) ==
  P.column_properties = NoColumnProperties \/ path \in DOMAIN P.column_properties

ColumnHasOwnKey(P, path) ==
  /\ path \in DOMAIN P.column_properties
  /\ P.column_properties[path].key # NoBytes

\* InternalFileEncryptor::GetColumnMetaEncryptor / GetColumnDataEncryptor
ColumnEncryptionKey(P, path) ==
  IF ColumnHasOwnKey(P, path) THEN P.column_properties[path].key ELSE P.footer_key

WriteModule(P, path, metadata, module_type, rg, col, page, pt) ==
  IF ColumnIsEncrypted(P, path)
    THEN AesEncrypt(P.cipher, metadata, ColumnEncryptionKey(P, path),
                    createModuleAAD(FileAadOf(P), module_type, rg, col, page),
                    1 + 1000 * rg + 100 * col + 10 * page + module_type, pt)
    ELSE PlainModule(pt)

WriteColumnChunk(P, rg, col) ==
  LET path == PathOf(col) IN
  [crypto_metadata |->
     IF ~ColumnIsEncrypted(P, path) THEN <<>>
     ELSE IF ColumnHasOwnKey(P, path)
       THEN <<[encrypted_with_footer_key |-> FALSE, path_in_schema |-> path,
               key_metadata |-> P.column_properties[path].key_metadata]>>
       ELSE <<[encrypted_with_footer_key |-> TRUE, path_in_schema |-> path,
               key_metadata |-> NoBytes]>>,
   pages |->
     [p \in 1..NumPages |->
        [header |-> WriteModule(P, path, TRUE, DataPageHeader, rg, col, p - 1, <<1>>),
         body |-> WriteModule(P, path, FALSE, DataPage, rg, col, p - 1,
                              PageValues(rg, col, p - 1))]]]

\* the Thrift FileMetaData of the file; encryption_algorithm and the footer
\* signing key metadata are set in plaintext-footer mode only
WriteFileMetaData(P) ==
  [encryption_algorithm |->
     IF P.encrypted_footer THEN <<>> ELSE <<EncryptionAlgorithmOf(P)>>,
   footer_signing_key_metadata |->
     IF P.encrypted_footer THEN NoBytes ELSE P.footer_key_metadata,
   row_groups |-> [r \in 1..NumRowGroups |->
                     [c \in 1..NumColumns |-> WriteColumnChunk(P, r - 1, c - 1)]]]

UnencryptedFileMetaData ==
  [encryption_algorithm |-> <<>>, footer_signing_key_metadata |-> NoBytes,
   row_groups |-> [r \in 1..NumRowGroups |-> [c \in 1..NumColumns |->
      [crypto_metadata |-> <<>>,
       pages |-> [p \in 1..NumPages |->
          [header |-> PlainModule(<<1>>),
           body |-> PlainModule(PageValues(r - 1, c - 1, p - 1))]]]]]]

\* serialized sizes, in bytes
DataLen == 100

SmallMetaLen == 40

LargeMetaLen == 70000

CryptoMetaLen == 20

MetaLens == {SmallMetaLen, LargeMetaLen}

SignatureLen == NonceLength + GCMTagLength

\* length prefix, nonce and tag of a GCM module
GcmSizeDelta == 4 + NonceLength + GCMTagLength

FooterNonce == 7

File(magic, footer_len, md, meta_len, trailer, crypto, enc_footer) ==
  [size |-> DataLen + footer_len + FOOTER_SIZE, tail_short |-> FALSE,
   body_short |-> FALSE, magic |-> magic, len |-> ToWide(footer_len),
   footer_len |-> footer_len, meta |-> md, meta_len |-> meta_len,
   trailer_len |-> IF trailer = <<>> THEN 0 ELSE SignatureLen, trailer |-> trailer,
   crypto_meta |-> crypto, crypto_meta_len |-> IF crypto = <<>> THEN 0 ELSE CryptoMetaLen,
   enc_footer |-> enc_footer]

\* ParquetFileWriter::Close with encryption properties P
WriteEncryptedFile(P, meta_len) ==
  LET md == WriteFileMetaData(P) IN
  IF P.encrypted_footer
    THEN File(PARQUET_EMAGIC, CryptoMetaLen + meta_len + GcmSizeDelta, <<>>, meta_len, <<>>,
              <<[encryption_algorithm |-> EncryptionAlgorithmOf(P),
                 key_metadata |-> P.footer_key_metadata]>>,
              <<AesEncrypt(P.cipher, TRUE, P.footer_key, createFooterAAD(FileAadOf(P)),
                           FooterNonce, md)>>)
    ELSE File(PARQUET_MAGIC, meta_len + SignatureLen, <<md>>, meta_len,
              <<SignedFooterEncrypt(md, P.footer_key, createFooterAAD(FileAadOf(P)),
                                    FooterNonce)>>,
              <<>>, <<>>)

\* ParquetFileWriter::Close without encryption properties
WriteUnencryptedFile(meta_len) ==
  File(PARQUET_MAGIC, meta_len, <<UnencryptedFileMetaData>>, meta_len, <<>>, <<>>, <<>>)

-----------------------------------------------------------------------------
(* File decryption properties as built (encryption_properties.h,           *)
(* FileDecryptionProperties).  A null pointer is the empty sequence, a     *)
(* non-null one a sequence of one element.  A key retriever is the map of  *)
(* a StringKeyIdRetriever; a verifier is the set of prefixes it accepts.   *)

NoDecryptionColumns == [p \in {} |-> NoBytes]

\* decryption configuration 4 of InteropReadTests
ExplicitColumnKeys ==
  [p \in {"double_field", "float_field"} |->
     IF p = "double_field" THEN kColumnEncryptionKey1 ELSE kColumnEncryptionKey2]

\* the retriever of decryption configurations 1 and 2
string_kr ==
  [m \in {kf, kc1, kc2} |->
     IF m = kf THEN kFooterEncryptionKey
     ELSE IF m = kc1 THEN kColumnEncryptionKey1 ELSE kColumnEncryptionKey2]

\* the retriever of decryption configuration 3
string_kr_hidden_column ==
  [m \in {kf, kc1} |-> IF m = kf THEN kFooterEncryptionKey ELSE kColumnEncryptionKey1]

KeyRetrievers == {<<>>, <<string_kr>>, <<string_kr_hidden_column>>}

AadPrefixVerifiers == {<<>>, <<{fileName}>>, <<{otherName}>>}

FileDecryptionPropertiesSet ==
  { [footer_key |-> fk, key_retriever |-> kr, check_plaintext_footer_integrity |-> chk,
     aad_prefix |-> ap, aad_prefix_verifier |-> ver, column_properties |-> cols] :
      fk \in {NoBytes, kFooterEncryptionKey}, kr \in KeyRetrievers, chk \in BOOLEAN,
      ap \in {NoBytes, fileName, otherName}, ver \in AadPrefixVerifiers,
      cols \in {NoDecryptionColumns, ExplicitColumnKeys} }

\* ReaderProperties::file_decryption_properties(): null, or the properties
ReaderPropertiesSet == {<<>>} \cup { <<D>> : D \in FileDecryptionPropertiesSet }

-----------------------------------------------------------------------------
(* InternalFileDecryptor, as ParseMetaData and GetColumnPageReader use it. *)

KeyUnavailable == "KeyUnavailable"

NewInternalFileDecryptor(D) ==
  [properties |-> D, file_aad |-> NoBytes, algorithm |-> "", footer_key_metadata |-> NoBytes]

\* DecryptionKeyRetriever::GetKey(key_metadata) of a StringKeyIdRetriever: the
\* key put under that id, the empty string when there is none
GetKey(key_retriever, key_metadata) ==
  IF key_metadata \in DOMAIN key_retriever THEN key_retriever[key_metadata] ELSE NoBytes

\* the outcome of a key resolution: the key, the exception, and the metadata
\* the retriever was called with
Resolved(key, get_key) ==
  [err |-> IF key = NoBytes THEN KeyUnavailable ELSE "", key |-> key, get_key |-> get_key]

\* the retriever asked before the explicit key is looked at
ResolveKeyRetrieverFirst(D, explicit_key, key_metadata) ==
  IF key_metadata # NoBytes /\ D.key_retriever # <<>>
    THEN Resolved(GetKey(D.key_retriever[1], key_metadata), <<key_metadata>>)
    ELSE Resolved(explicit_key, <<>>)

\* the explicit key, else the retriever on the stored key metadata
ResolveKey(D, explicit_key, key_metadata) ==
  IF explicit_key # NoBytes THEN Resolved(explicit_key, <<>>)
  ELSE IF key_metadata = NoBytes \/ D.key_retriever = <<>> THEN Resolved(NoBytes, <<>>)
  ELSE Resolved(GetKey(D.key_retriever[1], key_metadata), <<key_metadata>>)

\* the footer key: the explicit key, else the retriever on the key metadata
GetFooterKey(dec) ==
  ResolveKey(dec.properties, dec.properties.footer_key, dec.footer_key_metadata)

\* FileDecryptionProperties::column_key(path)
column_key(D, path) ==
  IF path \in DOMAIN D.column_properties THEN D.column_properties[path] ELSE NoBytes

\* the key of a column with its own key: the explicit key, else the retriever
GetColumnKey(dec, path, key_metadata) ==
  ResolveKey(dec.properties, column_key(dec.properties, path), key_metadata)

\* FileMetaData::verify(encryptor, tail): the signing encryptor recomputes the
\* tag over the footer with the nonce of the trailer
VerifySignature(md, key, file_aad, trailer) ==
  /\ trailer # <<>>
  /\ SignedFooterEncrypt(md, key, createFooterAAD(file_aad), trailer[1].nonce) = trailer[1]

-----------------------------------------------------------------------------
(* SerializedFile::ParseMetaData.  A run is a record: the exception thrown *)
(* ("" when none), the branch taken, the calls made in order, the reads    *)
(* and copies issued, and the members the run has set.                     *)

ErrTooSmall == "Corrupted file, smaller than file footer"

ErrLessThanMetadata == "Invalid parquet file. File is less than file metadata size."

ErrReadMetadata == "Invalid parquet file. Could not read metadata bytes."

ErrNoProperties == "No decryption properties are provided"

ErrPrefixDiffer == "ADD Prefix in file and in properties is not the same"

ErrPrefixMissing == "AAD prefix used for file encryption, but not stored in file and not supplied in decryption properties"

ErrCannotVerify == "Invalid parquet file. Cannot verify plaintextmode footer."

ErrNotVerified == "Invalid parquet file. Could not verify plaintext footer metadata"

ErrNoPropertiesEncrypted == "No decryption properties are provided. Could not read encrypted footer metadata"

ErrReadFooter == "Invalid encrypted parquet file. Could not read footer metadata bytes."

ErrCorruptFooter == "Invalid parquet file. Corrupt footer."

\* thrown by the collaborators: the Thrift parser and the caller's verifier
MetadataParseError == "MetadataParseError"

ErrVerifierRejected == "AADPrefixVerifier::check"

\* what a copy from outside the footer buffer into a buffer of up to 4 GiB
\* can end in
OutOfBoundsOutcomes == {"OutOfMemory", "SegmentationFault", MetadataParseError}

NewRun ==
  [err |-> "", branch |-> "none", events |-> <<>>, reads |-> <<>>,
   file_metadata |-> <<>>, file_crypto_metadata |-> <<>>, file_decryptor |-> <<>>]

Throw(r, e) == [r EXCEPT !.err = e]

Call(r, op, arg) == [r EXCEPT !.events = Append(@, [op |-> op, arg |-> arg])]

Access(r, src, off, len, avail) ==
  [r EXCEPT !.reads = Append(@, [src |-> src, off |-> off, len |-> len, avail |-> avail])]

InBounds(rd) == ~WideNeg(rd.off) /\ WideLeq(WideAdd(rd.off, rd.len), rd.avail)

Min(a, b) == IF a < b THEN a ELSE b

\* FOOTER_SIZE + metadata_len > file_size, both operands of + being uint32_t
LengthExceedsFile(len, file_size) ==
  WideLess(ToWide(file_size), U32Add(ToWide(FOOTER_SIZE), len))

\* lines 240-251 and 322-332: take the footer from the bytes already read,
\* or read it from the file
CopyFooter(r, f, footer_read_size, len, start) ==
  IF WideLeq(U32Add(len, ToWide(FOOTER_SIZE)), ToWide(footer_read_size))
    THEN Access(r, "footer_buffer",
                WideSub(WideSub(ToWide(footer_read_size), len), ToWide(FOOTER_SIZE)),
                len, ToWide(footer_read_size))
    ELSE LET r1 == Access(r, "file", start, len, ToWide(f.size)) IN
         IF f.body_short THEN Throw(r1, ErrReadMetadata) ELSE r1

\* lines 275-277: the verifier of the decryption properties, when there is one
VerifyPrefixPlaintextFooter(r, prefix, D) ==
  IF D.aad_prefix_verifier # <<>>
    THEN LET rc == Call(r, "check", prefix) IN
         IF prefix \in D.aad_prefix_verifier[1] THEN rc ELSE Throw(rc, ErrVerifierRejected)
    ELSE r

\* lines 266-278 without the comparison of lines 268-274
StoredPrefixUncompared(r, stored, D) == VerifyPrefixPlaintextFooter(r, stored, D)

\* lines 266-278: the file stores a prefix
CheckStoredPrefixPlaintextFooter(r, stored, D) ==
  IF D.aad_prefix # NoBytes /\ D.aad_prefix # stored
    THEN Throw(r, ErrPrefixDiffer)
    ELSE VerifyPrefixPlaintextFooter(r, stored, D)

\* lines 279-284 with the test of supply_aad_prefix inverted
PrefixMissingWhenNotRequired(algo, aad_prefix) ==
  ~algo.aad.supply_aad_prefix /\ aad_prefix = NoBytes

\* lines 279-284
PrefixMissingPlaintextFooter(algo, aad_prefix) ==
  algo.aad.supply_aad_prefix /\ aad_prefix = NoBytes

\* lines 263-285: the aad prefix of the file, from the stored prefix and the
\* prefix of the decryption properties
HandleAadPrefixPlaintextFooter(r, algo, D) ==
  LET stored == algo.aad.aad_prefix
      r1 == IF stored # NoBytes THEN CheckStoredPrefixPlaintextFooter(r, stored, D) ELSE r
      aad_prefix == IF stored # NoBytes THEN stored ELSE D.aad_prefix
  IN IF r1.err # "" THEN [run |-> r1, aad_prefix |-> NoBytes]
     ELSE IF PrefixMissingPlaintextFooter(algo, aad_prefix)
       THEN [run |-> Throw(r1, ErrPrefixMissing), aad_prefix |-> NoBytes]
       ELSE [run |-> r1, aad_prefix |-> aad_prefix]

\* lines 356-358
VerifyPrefixEncryptedFooter(r, prefix, D) ==
  IF D.aad_prefix_verifier # <<>>
    THEN LET rc == Call(r, "check", prefix) IN
         IF prefix \in D.aad_prefix_verifier[1] THEN rc ELSE Throw(rc, ErrVerifierRejected)
    ELSE r

\* lines 347-359 with the prefixes compared for equality instead of difference
StoredPrefixEqualRejected(r, stored, D) ==
  IF D.aad_prefix # NoBytes /\ D.aad_prefix = stored
    THEN Throw(r, ErrPrefixDiffer)
    ELSE VerifyPrefixEncryptedFooter(r, stored, D)

\* lines 347-359
CheckStoredPrefixEncryptedFooter(r, stored, D) ==
  IF D.aad_prefix # NoBytes /\ D.aad_prefix # stored
    THEN Throw(r, ErrPrefixDiffer)
    ELSE VerifyPrefixEncryptedFooter(r, stored, D)

\* lines 360-365
PrefixMissingEncryptedFooter(algo, aad_prefix) ==
  algo.aad.supply_aad_prefix /\ aad_prefix = NoBytes

\* lines 345-366: the same, in the encrypted-footer branch
HandleAadPrefixEncryptedFooter(r, algo, D) ==
  LET stored == algo.aad.aad_prefix
      r1 == IF stored # NoBytes THEN CheckStoredPrefixEncryptedFooter(r, stored, D) ELSE r
      aad_prefix == IF stored # NoBytes THEN stored ELSE D.aad_prefix
  IN IF r1.err # "" THEN [run |-> r1, aad_prefix |-> NoBytes]
     ELSE IF PrefixMissingEncryptedFooter(algo, aad_prefix)
       THEN [run |-> Throw(r1, ErrPrefixMissing), aad_prefix |-> NoBytes]
       ELSE [run |-> r1, aad_prefix |-> aad_prefix]

\* lines 288-290 and 369-370 without the call of file_aad()
SetUpDecryptorWithoutFileAad(r, file_aad, algorithm, footer_key_metadata) ==
  LET r1 == Call(Call(r, "algorithm", NoBytes), "footer_key_metadata", footer_key_metadata) IN
  [r1 EXCEPT !.file_decryptor =
     <<[@[1] EXCEPT !.algorithm = algorithm,
                    !.footer_key_metadata = footer_key_metadata]>>]

\* lines 287-290 and 368-370 with file_aad() called again after the two
\* other setters
SetUpDecryptorTwice(r, file_aad, algorithm, footer_key_metadata) ==
  LET r1 == Call(Call(Call(Call(r, "file_aad", file_aad), "algorithm", NoBytes),
                      "footer_key_metadata", footer_key_metadata),
                 "file_aad", file_aad) IN
  [r1 EXCEPT !.file_decryptor =
     <<[@[1] EXCEPT !.file_aad = file_aad, !.algorithm = algorithm,
                    !.footer_key_metadata = footer_key_metadata]>>]

\* lines 287-290 and 368-370: the three setters of the file decryptor
SetUpDecryptor(r, file_aad, algorithm, footer_key_metadata) ==
  LET r1 == Call(Call(Call(r, "file_aad", file_aad), "algorithm", NoBytes),
                 "footer_key_metadata", footer_key_metadata) IN
  [r1 EXCEPT !.file_decryptor =
     <<[@[1] EXCEPT !.file_aad = file_aad, !.algorithm = algorithm,
                    !.footer_key_metadata = footer_key_metadata]>>]

\* metadata_len - read_metadata_len < 28
TrailerTooShort(metadata_len, read_metadata_len) ==
  WideLess(U32Sub(metadata_len, ToWide(read_metadata_len)), ToWide(28))

\* metadata_len - read_metadata_len != 28
TrailerLengthWrong(metadata_len, read_metadata_len) ==
  U32Sub(metadata_len, ToWide(read_metadata_len)) # ToWide(28)

\* lines 291-305: verification of the signature of a plaintext footer
VerifyPlaintextFooter(r, f, md, metadata_len, read_metadata_len) ==
  IF TrailerLengthWrong(metadata_len, read_metadata_len)
    THEN Throw(r, ErrCannotVerify)
    ELSE LET r1 == Call(r, "GetFooterSigningEncryptor", NoBytes)
             k == GetFooterKey(r1.file_decryptor[1]) IN
         IF k.err # "" THEN Throw(r1, k.err)
         ELSE LET r2 == Call(r1, "verify", NoBytes) IN
              IF VerifySignature(md, k.key, r2.file_decryptor[1].file_aad, f.trailer)
                THEN r2 ELSE Throw(r2, ErrNotVerified)

\* line 291 with the condition taken as true
AlwaysCheckPlaintextFooterIntegrity(D) == TRUE

\* line 291 with the condition taken as false
NeverCheckPlaintextFooterIntegrity(D) == FALSE

\* FileDecryptionProperties::check_plaintext_footer_integrity(), line 291
CheckPlaintextFooterIntegrity(D) == D.check_plaintext_footer_integrity

\* lines 261-305: the decryptor of a plaintext footer that declares an
\* encryption algorithm
DecryptorForPlaintextFooter(r, f, D, md, metadata_len, read_metadata_len) ==
  LET r1 == [Call(r, "new InternalFileDecryptor", NoBytes)
               EXCEPT !.file_decryptor = <<NewInternalFileDecryptor(D)>>]
      algo == md.encryption_algorithm[1]
      h == HandleAadPrefixPlaintextFooter(r1, algo, D) IN
  IF h.run.err # "" THEN h.run
  ELSE LET file_aad == h.aad_prefix \o algo.aad.aad_file_unique
           r2 == SetUpDecryptor(h.run, file_aad, algo.algorithm,
                                md.footer_signing_key_metadata) IN
       IF CheckPlaintextFooterIntegrity(D)
         THEN VerifyPlaintextFooter(r2, f, md, metadata_len, read_metadata_len)
         ELSE r2

\* lines 256-306: a plaintext footer that declares an encryption algorithm
ParseEncryptedColumnsFooter(r, f, props, md, metadata_len, read_metadata_len) ==
  IF props = <<>> THEN Throw(r, ErrNoProperties)
  ELSE DecryptorForPlaintextFooter(r, f, props[1], md, metadata_len, read_metadata_len)

\* lines 228-306: the PAR1 branch
ParsePlaintextFooter(r0, f, props, footer_read_size, ub) ==
  LET r == [r0 EXCEPT !.branch = PARQUET_MAGIC]
      metadata_len == f.len
      metadata_start == WideSub(WideSub(ToWide(f.size), ToWide(FOOTER_SIZE)), metadata_len)
  IN
  IF LengthExceedsFile(metadata_len, f.size) THEN Throw(r, ErrLessThanMetadata)
  ELSE LET r1 == CopyFooter(r, f, footer_read_size, metadata_len, metadata_start) IN
       IF r1.err # "" THEN r1
       ELSE IF ~InBounds(r1.reads[Len(r1.reads)]) THEN Throw(r1, ub)
       ELSE LET r2 == Call(r1, "FileMetaData::Make", NoBytes) IN
            IF metadata_len # ToWide(f.footer_len) \/ f.meta = <<>>
              THEN Throw(r2, MetadataParseError)
              ELSE LET md == f.meta[1]
                       r3 == [r2 EXCEPT !.file_metadata = <<md>>] IN
                   IF md.encryption_algorithm # <<>>
                     THEN ParseEncryptedColumnsFooter(r3, f, props, md, metadata_len,
                                                      f.meta_len)
                     ELSE r3

\* lines 372-387: read the encrypted footer, decrypt it with the footer
\* decryptor and parse it
ReadEncryptedFooter(r, f, footer_len, crypto_metadata_len) ==
  LET metadata_offset ==
        WideAdd(WideSub(WideSub(ToWide(f.size), ToWide(FOOTER_SIZE)), footer_len),
                ToWide(crypto_metadata_len))
      metadata_len == U32Sub(footer_len, ToWide(crypto_metadata_len))
      r1 == Access(r, "file", metadata_offset, metadata_len, ToWide(f.size))
  IN
  IF f.body_short THEN Throw(r1, ErrReadFooter)
  ELSE LET r2 == Call(r1, "GetFooterDecryptor", NoBytes)
           dec == r2.file_decryptor[1]
           k == GetFooterKey(dec) IN
       IF k.err # "" THEN Throw(r2, k.err)
       ELSE LET r3 == Call(r2, "FileMetaData::Make", NoBytes)
                d == AesDecrypt(dec.algorithm, TRUE, f.enc_footer[1], k.key,
                                createFooterAAD(dec.file_aad)) IN
            IF d.err # "" THEN Throw(r3, d.err)
            ELSE [r3 EXCEPT !.file_metadata = <<d.pt>>]

\* lines 339-387: the decryptor of an encrypted footer, and the footer
DecryptorForEncryptedFooter(r1, f, D, footer_len) ==
  LET r2 == [Call(r1, "new InternalFileDecryptor", NoBytes)
               EXCEPT !.file_decryptor = <<NewInternalFileDecryptor(D)>>]
      r3 == Call(r2, "FileCryptoMetaData::Make", NoBytes) IN
  IF footer_len # ToWide(f.footer_len) \/ f.crypto_meta = <<>>
    THEN Throw(r3, MetadataParseError)
    ELSE LET crypto == f.crypto_meta[1]
             algo == crypto.encryption_algorithm
             r4 == [r3 EXCEPT !.file_crypto_metadata = <<crypto>>]
             h == HandleAadPrefixEncryptedFooter(r4, algo, D) IN
         IF h.run.err # "" THEN h.run
         ELSE LET fileAAD == h.aad_prefix \o algo.aad.aad_file_unique
                  r5 == SetUpDecryptor(h.run, fileAAD, algo.algorithm,
                                       crypto.key_metadata) IN
              ReadEncryptedFooter(r5, f, footer_len, f.crypto_meta_len)

\* lines 333-387 with the missing properties reported as a corrupt footer
ParseEncryptedFooterBodyCorruptFooter(r1, f, props, footer_len) ==
  IF props = <<>> THEN Throw(r1, ErrCorruptFooter)
  ELSE DecryptorForEncryptedFooter(r1, f, props[1], footer_len)

\* lines 333-387: the footer is encrypted
ParseEncryptedFooterBody(r1, f, props, footer_len) ==
  IF props = <<>> THEN Throw(r1, ErrNoPropertiesEncrypted)
  ELSE DecryptorForEncryptedFooter(r1, f, props[1], footer_len)

\* lines 311-387: the PARE branch
ParseEncryptedFooter(r0, f, props, footer_read_size, ub) ==
  LET r == [r0 EXCEPT !.branch = PARQUET_EMAGIC]
      footer_len == f.len
      crypto_metadata_start ==
        WideSub(WideSub(ToWide(f.size), ToWide(FOOTER_SIZE)), footer_len)
  IN
  IF LengthExceedsFile(footer_len, f.size) THEN Throw(r, ErrLessThanMetadata)
  ELSE LET r1 == CopyFooter(r, f, footer_read_size, footer_len, crypto_metadata_start) IN
       IF r1.err # "" THEN r1
       ELSE IF ~InBounds(r1.reads[Len(r1.reads)]) THEN Throw(r1, ub)
       ELSE ParseEncryptedFooterBody(r1, f, props, footer_len)

\* the memcmp alone, without bytes_read == footer_read_size
TailMagicOfShortRead(f, magic) == f.magic = magic

\* memcmp(footer_buffer + footer_read_size - 4, magic, 4) == 0, after a
\* complete read of the tail
TailHasMagic(f, magic) == ~f.tail_short /\ f.magic = magic

\* lines 212-391
ParseMetaData(f, props, ub) ==
  LET file_size == f.size IN
  IF file_size < FOOTER_SIZE THEN Throw(NewRun, ErrTooSmall)
  ELSE LET footer_read_size == Min(file_size, DEFAULT_FOOTER_READ_SIZE)
           r == Access(NewRun, "file", ToWide(file_size - footer_read_size),
                       ToWide(footer_read_size), ToWide(file_size)) IN
       IF TailHasMagic(f, PARQUET_MAGIC)
         THEN ParsePlaintextFooter(r, f, props, footer_read_size, ub)
       ELSE IF TailHasMagic(f, PARQUET_EMAGIC)
         THEN ParseEncryptedFooter(r, f, props, footer_read_size, ub)
       ELSE Throw(r, ErrCorruptFooter)

-----------------------------------------------------------------------------
(* SerializedRowGroup::GetColumnPageReader and the page reader it opens.   *)

NullDereference == "SegmentationFault"

Decryptor(key, dec, metadata) ==
  <<[key |-> key, file_aad |-> dec.file_aad, algorithm |-> dec.algorithm,
     metadata |-> metadata]>>

PageReaderOpen(err, row_group_ordinal, column_ordinal, meta_decryptor, data_decryptor) ==
  [err |-> err, row_group_ordinal |-> row_group_ordinal,
   column_ordinal |-> column_ordinal, meta_decryptor |-> meta_decryptor,
   data_decryptor |-> data_decryptor]

\* lines 134-137 alone: a page reader without decryptors, whatever the
\* crypto metadata of the column chunk
GetColumnPageReaderPassThrough(run, row_group_number, i) ==
  PageReaderOpen("", row_group_number, i, <<>>, <<>>)

\* lines 101-149 alone: every encrypted column taken as encrypted with the
\* footer key
GetColumnPageReaderFooterKeyOnly(run, row_group_number, i) ==
  LET col == run.file_metadata[1].row_groups[row_group_number + 1][i + 1]
      k == GetFooterKey(run.file_decryptor[1]) IN
  IF col.crypto_metadata = <<>>
    THEN PageReaderOpen("", row_group_number, i, <<>>, <<>>)
    ELSE PageReaderOpen(k.err, row_group_number, i,
                        Decryptor(k.key, run.file_decryptor[1], TRUE),
                        Decryptor(k.key, run.file_decryptor[1], FALSE))

\* (int16_t)row_group_number, (int16_t)i
ToInt16(n) == ((n + 2 ^ 15) % 2 ^ 16) - 2 ^ 15

\* lines 101-166, in the SerializedRowGroup that GetRowGroup(row_group_number)
\* has made
GetColumnPageReader(run, row_group_number, i) ==
  LET col == run.file_metadata[1].row_groups[row_group_number + 1][i + 1]
      crypto_metadata == col.crypto_metadata
      row_group_ordinal == ToInt16(row_group_number)
  IN
  IF crypto_metadata = <<>>
    THEN PageReaderOpen("", row_group_ordinal, ToInt16(i), <<>>, <<>>)
  ELSE IF run.file_decryptor = <<>>
    THEN PageReaderOpen(NullDereference, row_group_ordinal, ToInt16(i), <<>>, <<>>)
  ELSE LET dec == run.file_decryptor[1]
           k == IF crypto_metadata[1].encrypted_with_footer_key
                  THEN GetFooterKey(dec)
                  ELSE GetColumnKey(dec, crypto_metadata[1].path_in_schema,
                                    crypto_metadata[1].key_metadata) IN
       IF k.err # "" THEN PageReaderOpen(k.err, row_group_ordinal, ToInt16(i), <<>>, <<>>)
       ELSE PageReaderOpen("", row_group_ordinal, ToInt16(i),
                           Decryptor(k.key, dec, TRUE), Decryptor(k.key, dec, FALSE))

\* one module of a page, through the decryptor the page reader was given
ReadModule(decryptor, module, module_type, rg, col, page) ==
  IF decryptor = <<>>
    THEN IF module.enc THEN [err |-> MetadataParseError, pt |-> Garbage]
                       ELSE [err |-> "", pt |-> module.pt]
    ELSE AesDecrypt(decryptor[1].algorithm, decryptor[1].metadata, module,
                    decryptor[1].key,
                    createModuleAAD(decryptor[1].file_aad, module_type, rg, col, page))

\* the data pages of a column chunk, in order: header, then body, of each
ReadPage(pr, pg, page) ==
  LET h == ReadModule(pr.meta_decryptor, pg.header, DataPageHeader,
                      pr.row_group_ordinal, pr.column_ordinal, page)
      b == ReadModule(pr.data_decryptor, pg.body, DataPage,
                      pr.row_group_ordinal, pr.column_ordinal, page)
  IN IF h.err # "" THEN h ELSE b

FirstError(results) ==
  LET bad == {p \in DOMAIN results : results[p].err # ""} IN
  IF bad = {} THEN "" ELSE results[CHOOSE p \in bad : \A q \in bad : p <= q].err

\* RowGroupReader::Column(i) followed by reading every value of the column
ReadColumn(run, row_group_number, i) ==
  LET pr == GetColumnPageReader(run, row_group_number, i) IN
  IF pr.err # ""
    THEN [state |-> "failed", err |-> pr.err, values |-> <<>>, page_reader |-> <<pr>>]
  ELSE LET pages == run.file_metadata[1].row_groups[row_group_number + 1][i + 1].pages
           results == [p \in DOMAIN pages |-> ReadPage(pr, pages[p], p - 1)]
           e == FirstError(results) IN
       IF e # ""
         THEN [state |-> "failed", err |-> e, values |-> <<>>, page_reader |-> <<pr>>]
         ELSE [state |-> "read", err |-> "",
               values |-> [p \in DOMAIN pages |-> results[p].pt], page_reader |-> <<pr>>]

Unread == [state |-> "unread", err |-> "", values |-> <<>>, page_reader |-> <<>>]

-----------------------------------------------------------------------------
(* The state machine: a writer produces a file, the file may be damaged,   *)
(* a reader is opened on it with reader properties, columns are read, the  *)
(* reader is closed.                                                       *)

NoReader ==
  [status |-> "none", props |-> <<>>, run |-> NewRun, row_group |-> <<>>, ciphers |-> {}]

\* the cipher instances with a live context (ctx_ not null) that the file
\* decryptor of a run has made: the AesDecryptor of the footer, the
\* AesEncryptor of the footer signature
CiphersOfRun(run) ==
  IF run.file_decryptor = <<>> \/ GetFooterKey(run.file_decryptor[1]).err # "" THEN {}
  ELSE {c \in {"meta_decryptor", "meta_encryptor"} :
          \E k \in DOMAIN run.events :
            run.events[k].op = IF c = "meta_decryptor" THEN "GetFooterDecryptor"
                                                       ELSE "GetFooterSigningEncryptor"}

\* the cipher instances the decryptors of a page reader use
CiphersOfPageReader(pr) ==
  (IF pr.meta_decryptor # <<>> THEN {"meta_decryptor"} ELSE {})
    \cup (IF pr.data_decryptor # <<>> THEN {"data_decryptor"} ELSE {})

-----------------------------------------------------------------------------
(* The property builders of encryption_properties.h.  One builder is under *)
(* construction; a call returns, throws, or, where a DCHECK fails in a      *)
(* build with DCHECKs compiled in, aborts the process.                     *)

KeyLengthInvalid == "KeyLengthInvalid"

ColumnPropertiesAlreadySet == "Column properties already set"

\* a key of n bytes
KeyBytes(n) == [i \in 1..n |-> 9]

KeyLengths == {0, 15, 16, 17, 23, 24, 25, 31, 32, 33}

ValidKeyLength(key) == Len(key) \in {16, 24, 32}

NoBuilder == [kind |-> "none"]

NoCall ==
  [op |-> "", arg |-> <<>>, outcome |-> "returned", what |-> "", before |-> NoBuilder,
   built |-> <<>>, ops |-> {}]

Returned(b) == [outcome |-> "returned", what |-> "", builder |-> b, built |-> <<>>]

Thrown(b, what) == [outcome |-> "thrown", what |-> what, builder |-> b, built |-> <<>>]

Built(b, P) == [outcome |-> "returned", what |-> "", builder |-> b, built |-> <<P>>]

Aborted(b) == [outcome |-> "aborted", what |-> "DCHECK", builder |-> b, built |-> <<>>]

\* DCHECK(cond) before the statements that turn builder b into after: without
\* DCHECKs the statements run whatever cond is
DCHECK(cond, b, after) ==
  IF cond THEN {Returned(after)} ELSE {Returned(after), Aborted(b)}

\* FileEncryptionProperties::Builder::Builder(footer_key), lines 325-330
FileEncryptionBuilder(footer_key) ==
  [kind |-> "FileEncryptionProperties", parquet_cipher |-> AES_GCM_V1,
   encrypted_footer |-> TRUE, footer_key |-> footer_key,
   footer_key_metadata |-> NoBytes, aad_prefix |-> NoBytes,
   store_aad_prefix_in_file |-> FALSE, column_properties |-> NoColumnProperties]

\* lines 334-337
enable_plaintext_footer(b) == {Returned([b EXCEPT !.encrypted_footer = FALSE])}

\* lines 341-344
algorithm(b, parquet_cipher) == {Returned([b EXCEPT !.parquet_cipher = parquet_cipher])}

\* lines 352-358
footer_key_metadata(b, key_metadata) ==
  IF key_metadata = NoBytes THEN {Returned(b)}
  ELSE DCHECK(b.footer_key_metadata = NoBytes, b,
              [b EXCEPT !.footer_key_metadata = key_metadata])

\* lines 361-368 with store_aad_prefix_in_file_ left as it was
EncryptionAadPrefixStorageUntouched(b, prefix) ==
  IF prefix = NoBytes THEN {Returned(b)}
  ELSE DCHECK(b.aad_prefix = NoBytes, b, [b EXCEPT !.aad_prefix = prefix])

\* FileEncryptionProperties::Builder::aad_prefix, lines 361-368
EncryptionAadPrefix(b, prefix) ==
  IF prefix = NoBytes THEN {Returned(b)}
  ELSE DCHECK(b.aad_prefix = NoBytes, b,
              [b EXCEPT !.aad_prefix = prefix, !.store_aad_prefix_in_file = TRUE])

\* lines 372-377
disable_store_aad_prefix_storage(b) ==
  DCHECK(b.aad_prefix # NoBytes, b, [b EXCEPT !.store_aad_prefix_in_file = FALSE])

\* lines 382-393 and 206-217 without the test of the stored map
ColumnPropertiesOverwritten(b, column_properties) ==
  IF column_properties = NoColumnProperties THEN {Returned(b)}
  ELSE {Returned([b EXCEPT !.column_properties = column_properties])}

\* FileEncryptionProperties::Builder::column_properties, lines 382-393, and
\* FileDecryptionProperties::Builder::column_properties, lines 206-217
ColumnProperties(b, column_properties) ==
  IF column_properties = NoColumnProperties THEN {Returned(b)}
  ELSE IF b.column_properties # NoColumnProperties
    THEN {Thrown(b, ColumnPropertiesAlreadySet)}
    ELSE {Returned([b EXCEPT !.column_properties = column_properties])}

\* the constructors of the four property classes check the key they are given
KeyLengthChecked(b, key, P) ==
  IF ValidKeyLength(key) THEN {Built(b, P)} ELSE {Thrown(b, KeyLengthInvalid)}

\* lines 395-399 with an empty map passed for column_properties_
FileEncryptionBuildWithoutColumns(b) ==
  KeyLengthChecked(b, b.footer_key,
    [cipher |-> b.parquet_cipher, footer_key |-> b.footer_key,
     footer_key_metadata |-> b.footer_key_metadata,
     encrypted_footer |-> b.encrypted_footer, aad_prefix |-> b.aad_prefix,
     store_aad_prefix_in_file |-> b.store_aad_prefix_in_file,
     column_properties |-> NoColumnProperties])

\* FileEncryptionProperties::Builder::build, lines 395-399
FileEncryptionBuild(b) ==
  KeyLengthChecked(b, b.footer_key,
    [cipher |-> b.parquet_cipher, footer_key |-> b.footer_key,
     footer_key_metadata |-> b.footer_key_metadata,
     encrypted_footer |-> b.encrypted_footer, aad_prefix |-> b.aad_prefix,
     store_aad_prefix_in_file |-> b.store_aad_prefix_in_file,
     column_properties |-> b.column_properties])

\* FileDecryptionProperties::Builder::Builder(), line 183
FileDecryptionBuilder ==
  [kind |-> "FileDecryptionProperties", footer_key |-> NoBytes, aad_prefix |-> NoBytes,
   aad_prefix_verifier |-> <<>>, column_properties |-> NoColumnProperties,
   key_retriever |-> <<>>, check_plaintext_footer_integrity |-> TRUE]

\* lines 191-198
footer_key(b, key) ==
  IF key = NoBytes THEN {Returned(b)} ELSE {Returned([b EXCEPT !.footer_key = key])}

\* lines 225-231
key_retriever(b, retriever) ==
  IF retriever = <<>> THEN {Returned(b)}
  ELSE DCHECK(b.key_retriever = <<>>, b, [b EXCEPT !.key_retriever = retriever])

\* lines 239-242
disable_footer_signature_verification(b) ==
  {Returned([b EXCEPT !.check_plaintext_footer_integrity = FALSE])}

\* FileDecryptionProperties::Builder::aad_prefix, lines 248-255
DecryptionAadPrefix(b, prefix) ==
  IF prefix = NoBytes THEN {Returned(b)}
  ELSE DCHECK(b.aad_prefix = NoBytes, b, [b EXCEPT !.aad_prefix = prefix])

\* lines 258-264
aad_prefix_verifier(b, verifier) ==
  IF verifier = <<>> THEN {Returned(b)}
  ELSE DCHECK(b.aad_prefix_verifier = <<>>, b,
              [b EXCEPT !.aad_prefix_verifier = verifier])

\* FileDecryptionProperties::Builder::build, lines 266-270: a footer key that
\* was never set is the empty string and is not checked
FileDecryptionBuild(b) ==
  LET D == [footer_key |-> b.footer_key, key_retriever |-> b.key_retriever,
            check_plaintext_footer_integrity |-> b.check_plaintext_footer_integrity,
            aad_prefix |-> b.aad_prefix, aad_prefix_verifier |-> b.aad_prefix_verifier,
            column_properties |-> b.column_properties] IN
  IF b.footer_key = NoBytes THEN {Built(b, D)} ELSE KeyLengthChecked(b, b.footer_key, D)

\* ColumnEncryptionProperties::Builder::Builder(path), lines 53-54 and 92-93
ColumnEncryptionBuilder(path) ==
  [kind |-> "ColumnEncryptionProperties", column_path |-> path, encrypted |-> TRUE,
   key |-> NoBytes, key_metadata |-> NoBytes]

\* ColumnDecryptionProperties::Builder::Builder(path), lines 126-127
ColumnDecryptionBuilder(path) ==
  [kind |-> "ColumnDecryptionProperties", column_path |-> path, key |-> NoBytes]

\* lines 60-66 and 133-139 with the empty key stored too
ColumnKeyEmptyStored(b, key) == {Returned([b EXCEPT !.key = key])}

\* ColumnEncryptionProperties::Builder::key, lines 60-66, and
\* ColumnDecryptionProperties::Builder::key, lines 133-139
ColumnKey(b, key) ==
  IF key = NoBytes THEN {Returned(b)} ELSE {Returned([b EXCEPT !.key = key])}

\* ColumnEncryptionProperties::Builder::key_metadata, lines 70-75
ColumnKeyMetadata(b, key_metadata) ==
  DCHECK(key_metadata # NoBytes /\ b.key_metadata = NoBytes, b,
         [b EXCEPT !.key_metadata = key_metadata])

\* lines 82-85 with a constructor that takes any key
ColumnEncryptionBuildAnyKey(b) == {Built(b, ColumnProps(b.key, b.key_metadata))}

\* ColumnEncryptionProperties::Builder::build, lines 82-85
ColumnEncryptionBuild(b) ==
  IF b.key = NoBytes THEN {Built(b, ColumnProps(b.key, b.key_metadata))}
  ELSE KeyLengthChecked(b, b.key, ColumnProps(b.key, b.key_metadata))

\* ColumnDecryptionProperties::Builder::build, lines 141-144
ColumnDecryptionBuild(b) ==
  IF b.key = NoBytes THEN {Built(b, b.key)} ELSE KeyLengthChecked(b, b.key, b.key)

\* one explicit column key
OneColumnKey == [p \in {"double_field"} |-> kColumnEncryptionKey1]

DecryptionColumnMaps == {NoDecryptionColumns, ExplicitColumnKeys, OneColumnKey}

BuilderPaths == {"double_field", "float_field"}

\* a column name, character by character
ColumnNames == {<<"a">>, <<"a", ".", "b">>}

\* schema::ColumnPath::FromDotString(name): the parts of name that its dots
\* separate
RECURSIVE FromDotString(_)
FromDotString(name) ==
  IF name = <<>> THEN <<>>
  ELSE IF \A k \in DOMAIN name : name[k] # "." THEN <<name>>
  ELSE LET d == CHOOSE k \in DOMAIN name :
                  name[k] = "." /\ \A j \in 1..(k - 1) : name[j] # "."
       IN <<SubSeq(name, 1, d - 1)>> \o FromDotString(SubSeq(name, d + 1, Len(name)))

\* ColumnEncryptionProperties::Builder::Builder(name), lines 48-50: the body
\* constructs a temporary Builder(path, true) and drops it; the members of
\* the builder itself are default-initialised, column_path_ a null pointer
\* and encrypted_ an indeterminate bool
ColumnEncryptionBuilderOfName(name, indeterminate) ==
  [kind |-> "ColumnEncryptionProperties", column_path |-> <<>>,
   encrypted |-> indeterminate, key |-> NoBytes, key_metadata |-> NoBytes]

\* ColumnEncryptionProperties::Builder::build, lines 82-85, with the four
\* arguments that the constructor is given
ColumnEncryptionBuildOf(b) ==
  {[r EXCEPT !.built =
      IF @ = <<>> THEN <<>>
      ELSE <<[encrypted |-> b.encrypted, column_path |-> b.column_path,
              key |-> b.key, key_metadata |-> b.key_metadata]>>] :
   r \in ColumnEncryptionBuild(b)}

-----------------------------------------------------------------------------
(* AesEncryptor and AesDecryptor (crypto.h) on bytes: the framing of a     *)
(* ciphertext, the key length an instance serves, and its cipher context.  *)

KeyLengthMismatch == "KeyLengthMismatch"

MaxPlaintextLen == 2

MaxWipeOuts == 2

RECURSIVE SumBytes(_)
SumBytes(bytes) == IF bytes = <<>> THEN 0 ELSE bytes[1] + SumBytes(Tail(bytes))

Le32(n) == <<n % 256, (n \div 256) % 256, (n \div 65536) % 256, (n \div 16777216) % 256>>

FromLe32(bytes) == bytes[1] + 256 * bytes[2] + 65536 * bytes[3] + 16777216 * bytes[4]

\* the block cipher in counter mode: byte i of the key stream of key and nonce
KeyStream(key, nonce, i) == (key[1] + 3 * Len(key) + nonce[1] + i) % 256

\* the GHASH tag over key, nonce, aad and ciphertext
Tag(key, nonce, aad, ct) ==
  [j \in 1..GCMTagLength |->
     (key[1] + Len(key) + nonce[1] + 5 * SumBytes(aad) + Len(aad)
        + 7 * SumBytes(ct) + Len(ct) + j) % 256]

\* AesEncryptor::AesEncryptor / AesDecryptor::AesDecryptor, lines 49-50, 94-95
NewCipher(alg_id, key_len, metadata) ==
  [alg_id |-> alg_id, key_length |-> key_len, metadata |-> metadata,
   ctx |-> "live", frees |-> 0, wipe_outs |-> 0, destroyed |-> FALSE]

\* CiphertextSizeDelta(), lines 53 and 105
CiphertextSizeDelta(c) ==
  4 + NonceLength + (IF IsGcm(c.alg_id, c.metadata) THEN GCMTagLength ELSE 0)

\* gcm_encrypt / ctr_encrypt, lines 84-88: nonce || ciphertext [|| tag]
ctr_encrypt(plaintext, key, nonce) ==
  nonce \o [i \in 1..Len(plaintext) |-> (plaintext[i] + KeyStream(key, nonce, i)) % 256]

gcm_encrypt(plaintext, key, nonce, aad) ==
  LET body == ctr_encrypt(plaintext, key, nonce) IN
  body \o Tag(key, nonce, aad, SubSeq(body, NonceLength + 1, Len(body)))

\* every cipher instance takes the CTR path
EncryptCtrOnly(c, plaintext, key, aad, nonce) ==
  IF Len(key) # c.key_length THEN [err |-> KeyLengthMismatch, out |-> <<>>]
  ELSE LET body == ctr_encrypt(plaintext, key, nonce) IN
       [err |-> "", out |-> Le32(Len(body)) \o body]

\* AesEncryptor::Encrypt, lines 57-58, with the nonce it draws
Encrypt(c, plaintext, key, aad, nonce) ==
  IF Len(key) # c.key_length THEN [err |-> KeyLengthMismatch, out |-> <<>>]
  ELSE LET body == IF IsGcm(c.alg_id, c.metadata)
                     THEN gcm_encrypt(plaintext, key, nonce, aad)
                     ELSE ctr_encrypt(plaintext, key, nonce) IN
       [err |-> "", out |-> Le32(Len(body)) \o body]

\* ctr_decrypt, lines 128-129
ctr_decrypt(body, key) ==
  LET nonce == SubSeq(body, 1, NonceLength)
      ct == SubSeq(body, NonceLength + 1, Len(body)) IN
  [i \in 1..Len(ct) |-> (ct[i] + 256 - KeyStream(key, nonce, i)) % 256]

\* gcm_decrypt, lines 125-126
gcm_decrypt(body, key, aad) ==
  LET nonce == SubSeq(body, 1, NonceLength)
      ct == SubSeq(body, NonceLength + 1, Len(body) - GCMTagLength)
      tag == SubSeq(body, Len(body) - GCMTagLength + 1, Len(body)) IN
  IF tag = Tag(key, nonce, aad, ct)
    THEN [err |-> "", out |-> ctr_decrypt(nonce \o ct, key)]
    ELSE [err |-> AeadFailure, out |-> <<>>]

\* the key length is not compared with the one of the constructor
DecryptAnyKeyLength(c, ciphertext, key, aad) ==
  LET body == SubSeq(ciphertext, 5, Len(ciphertext)) IN
  IF IsGcm(c.alg_id, c.metadata) THEN gcm_decrypt(body, key, aad)
  ELSE [err |-> "", out |-> ctr_decrypt(body, key)]

\* AesDecryptor::Decrypt, lines 109-110
Decrypt(c, ciphertext, key, aad) ==
  IF Len(key) # c.key_length THEN [err |-> KeyLengthMismatch, out |-> <<>>]
  ELSE IF Len(ciphertext) < CiphertextSizeDelta(c)
            \/ FromLe32(ciphertext) # Len(ciphertext) - 4
    THEN [err |-> AeadFailure, out |-> <<>>]
  ELSE LET body == SubSeq(ciphertext, 5, Len(ciphertext)) IN
       IF IsGcm(c.alg_id, c.metadata) THEN gcm_decrypt(body, key, aad)
       ELSE [err |-> "", out |-> ctr_decrypt(body, key)]

\* lines 64-69 and 97-102 with ctx_ left as it was
WipeOutKeepsPointer(c) == [c EXCEPT !.frees = @ + 1]

\* AesEncryptor::WipeOut, lines 64-69, and AesDecryptor::WipeOut, lines 97-102
WipeOut(c) ==
  IF c.ctx # "null" THEN [c EXCEPT !.frees = @ + 1, !.ctx = "null"] ELSE c

\* ~AesEncryptor, lines 71-76, and ~AesDecryptor, lines 112-117
Destructor(c) ==
  IF c.ctx # "null" THEN [c EXCEPT !.frees = @ + 1, !.ctx = "null", !.destroyed = TRUE]
                    ELSE [c EXCEPT !.destroyed = TRUE]

\* line 139 with the low byte of the ordinal alone written
quickUpdateLowByte(AAD, new_page_ordinal) ==
  SubSeq(AAD, 1, Len(AAD) - 1) \o <<new_page_ordinal % 256>>

\* quickUpdatePageAAD, line 139: the last two bytes of AAD are overwritten
quickUpdatePageAAD(AAD, new_page_ordinal) ==
  SubSeq(AAD, 1, Len(AAD) - 2) \o Le16(new_page_ordinal)

NoCiphers == [encryptor |-> <<>>, decryptor |-> <<>>]

\* the last operation: its name, its arguments, what it threw and returned
Operation(op, args, err, out) == [op |-> op, args |-> args, err |-> err, out |-> out]

NoOperation == Operation("", <<>>, "", <<>>)

CipherKeyLengths == {16, 24, 32}

CipherKey(n, b) == [i \in 1..n |-> b]

\* a key of each length, and a second key of 16 bytes
CipherKeys == {CipherKey(n, 1) : n \in CipherKeyLengths} \cup {CipherKey(16, 2)}

Plaintexts == UNION {[1..n -> {0, 255}] : n \in 0..MaxPlaintextLen}

CipherAads == {<<>>, <<7>>}

\* the module types that carry a page ordinal
PageModules == {DataPage, DictionaryPage, DataPageHeader, DictionaryPageHeader}

FileAads == {aad_file_unique, fileName \o aad_file_unique}

Ordinals == {0, 1, 255, 256, 32767}

ChunkOrdinals == {0, 1, 256}

Nonces == {[i \in 1..NonceLength |-> b] : b \in {0, 255}}

-----------------------------------------------------------------------------
(* PageReader: the pages of one column chunk, read one by one with the     *)
(* ordinals and the decryptors GetColumnPageReader passed to Open.         *)

MaxDictionaryPages == 2

MaxChunks == 2

DictionaryTwice == "Only one dictionary page is allowed"

\* a dictionary page of a column chunk, written with page ordinal 0
WriteDictionaryPage(P, rg, col) ==
  [type |-> "dictionary",
   header |-> WriteModule(P, PathOf(col), TRUE, DictionaryPageHeader, rg, col, 0, <<1>>),
   body |-> WriteModule(P, PathOf(col), FALSE, DictionaryPage, rg, col, 0, <<50 + col>>)]

\* the pages of a column chunk in file order, after n dictionary pages
ChunkPages(P, rg, col, n) ==
  LET data == WriteColumnChunk(P, rg, col).pages IN
  [k \in 1..n |-> WriteDictionaryPage(P, rg, col)]
    \o [k \in DOMAIN data |-> [type |-> "data", header |-> data[k].header,
                                body |-> data[k].body]]

\* PageReader::Open, as called on lines 134-165 of file_reader.cc
NewPageReader(pages, has_dictionary_page, pr, opened) ==
  [open |-> TRUE, pages |-> pages, has_dictionary_page |-> has_dictionary_page,
   position |-> 0, page_ordinal |-> 0, seen_dictionary |-> FALSE,
   row_group_ordinal |-> pr.row_group_ordinal, column_ordinal |-> pr.column_ordinal,
   meta_decryptor |-> pr.meta_decryptor, data_decryptor |-> pr.data_decryptor,
   log |-> <<>>, err |-> "", opened |-> opened]

NoPageReader ==
  [NewPageReader(<<>>, FALSE, PageReaderOpen("", 0, 0, <<>>, <<>>), 0)
     EXCEPT !.open = FALSE]

\* the step of NextPage with one page ordinal counted over all pages
NextPageOneCounter(r) ==
  LET pg == r.pages[r.position + 1]
      dict == r.has_dictionary_page /\ r.position = 0
      ord == r.position
      h == ReadModule(r.meta_decryptor, pg.header,
                      IF dict THEN DictionaryPageHeader ELSE DataPageHeader,
                      r.row_group_ordinal, r.column_ordinal, ord)
      b == ReadModule(r.data_decryptor, pg.body,
                      IF dict THEN DictionaryPage ELSE DataPage,
                      r.row_group_ordinal, r.column_ordinal, ord)
      e == IF h.err # "" THEN h.err
           ELSE IF pg.type = "dictionary" /\ r.seen_dictionary THEN DictionaryTwice
           ELSE b.err IN
  [r EXCEPT !.position = @ + 1, !.err = e,
            !.seen_dictionary = @ \/ (e = "" /\ pg.type = "dictionary"),
            !.log = Append(@, [type |-> pg.type, ordinal |-> ord,
                               header |-> <<r.row_group_ordinal, r.column_ordinal, ord>>,
                               body |-> <<r.row_group_ordinal, r.column_ordinal, ord>>,
                               err |-> e])]

\* PageReader::NextPage: the header, then the body, of the next page; the
\* first page of a chunk with a dictionary page is read as the dictionary page
NextPage(r) ==
  LET pg == r.pages[r.position + 1]
      dict == r.has_dictionary_page /\ r.position = 0
      ord == IF dict THEN 0 ELSE r.page_ordinal
      h == ReadModule(r.meta_decryptor, pg.header,
                      IF dict THEN DictionaryPageHeader ELSE DataPageHeader,
                      r.row_group_ordinal, r.column_ordinal, ord)
      b == ReadModule(r.data_decryptor, pg.body,
                      IF dict THEN DictionaryPage ELSE DataPage,
                      r.row_group_ordinal, r.column_ordinal, ord)
      e == IF h.err # "" THEN h.err
           ELSE IF pg.type = "dictionary" /\ r.seen_dictionary THEN DictionaryTwice
           ELSE b.err IN
  [r EXCEPT !.position = @ + 1, !.err = e,
            !.page_ordinal = IF dict THEN @ ELSE @ + 1,
            !.seen_dictionary = @ \/ (e = "" /\ pg.type = "dictionary"),
            !.log = Append(@, [type |-> pg.type, ordinal |-> ord,
                               header |-> <<r.row_group_ordinal, r.column_ordinal, ord>>,
                               body |-> <<r.row_group_ordinal, r.column_ordinal, ord>>,
                               err |-> e])]

Init ==
  /\ file = <<>>
  /\ written = [props |-> <<>>, intact |-> TRUE]
  /\ reader = NoReader
  /\ columns_read = [i \in ColumnOrdinals |-> Unread]
  /\ builder = NoBuilder
  /\ call = NoCall
  /\ aes = NoCiphers
  /\ io = NoOperation
  /\ page_reader = NoPageReader

WriteEncrypted ==
  /\ file = <<>>
  /\ \E P \in FileEncryptionPropertiesSet, meta_len \in MetaLens :
       /\ file' = <<WriteEncryptedFile(P, meta_len)>>
       /\ written' = [props |-> <<P>>, intact |-> TRUE]
  /\ UNCHANGED <<reader, columns_read, builder, call, aes, io, page_reader>>

WriteUnencrypted ==
  /\ file = <<>>
  /\ \E meta_len \in MetaLens : file' = <<WriteUnencryptedFile(meta_len)>>
  /\ UNCHANGED <<written, reader, columns_read, builder, call, aes, io, page_reader>>

Damageable == file # <<>> /\ written.intact /\ reader.status = "none"

Damage(f) ==
  /\ file' = <<f>>
  /\ written' = [written EXCEPT !.intact = FALSE]
  /\ UNCHANGED <<reader, columns_read, builder, call, aes, io, page_reader>>

\* the 4 bytes before the magic hold another value
FooterLengths(f) ==
  {ToWide(0), ToWide(f.size - FOOTER_SIZE), ToWide(f.size - FOOTER_SIZE + 1),
   <<Limb - 1, Limb - FOOTER_SIZE>>, <<Limb - 1, Limb - 1>>}

SetFooterLength ==
  /\ Damageable
  /\ \E L \in FooterLengths(file[1]) : Damage([file[1] EXCEPT !.len = L])

SetMagic ==
  /\ Damageable
  /\ \E m \in {PARQUET_MAGIC, PARQUET_EMAGIC, "PARQ"} \ {file[1].magic} :
       Damage([file[1] EXCEPT !.magic = m])

\* the file is cut to fewer bytes than a footer has
Truncate ==
  /\ Damageable
  /\ \E n \in {0, FOOTER_SIZE - 1} : Damage([file[1] EXCEPT !.size = n])

\* the source returns fewer bytes than asked for
ShortRead ==
  /\ Damageable
  /\ \/ Damage([file[1] EXCEPT !.tail_short = TRUE])
     \/ Damage([file[1] EXCEPT !.body_short = TRUE])

Resized(f, trailer, trailer_len) ==
  [f EXCEPT !.trailer = trailer, !.trailer_len = trailer_len,
            !.footer_len = f.meta_len + trailer_len,
            !.len = ToWide(f.meta_len + trailer_len),
            !.size = DataLen + f.meta_len + trailer_len + FOOTER_SIZE]

\* the signature after a plaintext footer is missing, of another length, or
\* made with another key
DamageSignature ==
  /\ Damageable
  /\ file[1].trailer # <<>>
  /\ \/ Damage(Resized(file[1], <<>>, 0))
     \/ \E n \in {SignatureLen - 1, SignatureLen + 1} :
          Damage(Resized(file[1], file[1].trailer, n))
     \/ Damage([file[1] EXCEPT !.trailer =
          <<SignedFooterEncrypt(file[1].meta[1], kColumnEncryptionKey1,
                                @[1].tag.aad, @[1].nonce)>>])

\* ParquetFileReader::Open(source, props): lines 415-432 with no metadata passed
Open ==
  /\ file # <<>>
  /\ reader.status = "none"
  /\ \E props \in ReaderPropertiesSet, ub \in OutOfBoundsOutcomes :
       LET run == ParseMetaData(file[1], props, ub) IN
       \* an exception of ParseMetaData destroys the SerializedFile (line 418),
       \* its file decryptor and, with ~AesDecryptor, the contexts
       reader' = [status |-> IF run.err = "" THEN "open" ELSE "failed",
                  props |-> props, run |-> run, row_group |-> <<>>,
                  ciphers |-> IF run.err = "" THEN CiphersOfRun(run) ELSE {}]
  /\ UNCHANGED <<file, written, columns_read, builder, call, aes, io, page_reader>>

\* ParquetFileReader::Open(source, props, metadata): lines 415-432 with the
\* metadata that an earlier reader of the file has parsed; set_metadata (line
\* 428) takes the place of ParseMetaData, and no file decryptor is made
OpenWithMetadata ==
  /\ file # <<>>
  /\ reader.status = "none"
  /\ \E props \in ReaderPropertiesSet, ub \in OutOfBoundsOutcomes :
       LET parsed == ParseMetaData(file[1], props, ub) IN
       /\ parsed.err = ""
       /\ reader' = [status |-> "open", props |-> props,
                     run |-> [NewRun EXCEPT !.file_metadata = parsed.file_metadata],
                     row_group |-> <<>>, ciphers |-> {}]
  /\ UNCHANGED <<file, written, columns_read, builder, call, aes, io, page_reader>>

\* ParquetFileReader::RowGroup(i): the row group the columns are read from
RowGroup ==
  /\ reader.status = "open"
  /\ reader.row_group = <<>>
  /\ \E r \in RowGroupOrdinals : reader' = [reader EXCEPT !.row_group = <<r>>]
  /\ UNCHANGED <<file, written, columns_read, builder, call, aes, io, page_reader>>

\* RowGroupReader::Column(i) and the reads of the column
Column ==
  /\ reader.status = "open"
  /\ reader.row_group # <<>>
  /\ \E i \in ColumnOrdinals :
       /\ columns_read[i].state = "unread"
       /\ columns_read' =
            [columns_read EXCEPT ![i] = ReadColumn(reader.run, reader.row_group[1], i)]
       /\ reader' = [reader EXCEPT !.ciphers =
            @ \cup CiphersOfPageReader(columns_read'[i].page_reader[1])]
  /\ UNCHANGED <<file, written, builder, call, aes, io, page_reader>>

\* ParquetFileReader::Close: contents_->Close(), which closes the source
Close ==
  /\ reader.status = "open"
  /\ reader' = [reader EXCEPT !.status = "closed"]
  /\ UNCHANGED <<file, written, columns_read, builder, call, aes, io, page_reader>>

Next ==
  \/ WriteEncrypted
  \/ WriteUnencrypted
  \/ SetFooterLength
  \/ SetMagic
  \/ Truncate
  \/ ShortRead
  \/ DamageSignature
  \/ Open
  \/ RowGroup
  \/ Column
  \/ Close

Spec == Init /\ [][Next]_vars

\* a reader obtained with the metadata of an earlier reader instead of a
\* parse of the footer
SuppliedMetadataNext ==
  \/ WriteEncrypted
  \/ WriteUnencrypted
  \/ OpenWithMetadata
  \/ RowGroup
  \/ Column
  \/ Close

SuppliedMetadataSpec == Init /\ [][SuppliedMetadataNext]_vars

-----------------------------------------------------------------------------
(* The calls on a property builder.                                        *)

Construct(b) ==
  /\ builder = NoBuilder
  /\ builder' = b
  /\ call' = [NoCall EXCEPT !.op = "Builder", !.ops = {"Builder"}]
  /\ UNCHANGED <<reader_vars, crypto_vars, page_vars>>

\* a call of method op with argument arg on the builder of class kind; results
\* are its outcomes
Invoke(kind, op, arg, results) ==
  /\ builder.kind = kind
  /\ call.outcome # "aborted"
  /\ \E r \in results :
       /\ builder' = r.builder
       /\ call' = [op |-> op, arg |-> arg, outcome |-> r.outcome, what |-> r.what,
                   before |-> builder, built |-> r.built, ops |-> call.ops \cup {op}]
  /\ UNCHANGED <<reader_vars, crypto_vars, page_vars>>

NewFileEncryptionBuilder ==
  \E n \in KeyLengths : Construct(FileEncryptionBuilder(KeyBytes(n)))

CallEnablePlaintextFooter ==
  Invoke("FileEncryptionProperties", "enable_plaintext_footer", <<>>,
         enable_plaintext_footer(builder))

CallAlgorithm ==
  \E c \in {AES_GCM_V1, AES_GCM_CTR_V1} :
    Invoke("FileEncryptionProperties", "algorithm", c, algorithm(builder, c))

CallFooterKeyMetadata ==
  \E m \in {NoBytes, kf} :
    Invoke("FileEncryptionProperties", "footer_key_metadata", m,
           footer_key_metadata(builder, m))

CallEncryptionAadPrefix ==
  \E prefix \in {NoBytes, fileName, otherName} :
    Invoke("FileEncryptionProperties", "aad_prefix", prefix, EncryptionAadPrefix(builder, prefix))

CallDisableStoreAadPrefixStorage ==
  Invoke("FileEncryptionProperties", "disable_store_aad_prefix_storage", <<>>,
         disable_store_aad_prefix_storage(builder))

CallEncryptionColumnProperties ==
  \E m \in EncryptionColumnMaps :
    Invoke("FileEncryptionProperties", "column_properties", m, ColumnProperties(builder, m))

CallFileEncryptionBuild ==
  Invoke("FileEncryptionProperties", "build", <<>>, FileEncryptionBuild(builder))

NewFileDecryptionBuilder == Construct(FileDecryptionBuilder)

CallFooterKey ==
  \E n \in KeyLengths :
    Invoke("FileDecryptionProperties", "footer_key", KeyBytes(n), footer_key(builder, KeyBytes(n)))

CallDecryptionColumnProperties ==
  \E m \in DecryptionColumnMaps :
    Invoke("FileDecryptionProperties", "column_properties", m, ColumnProperties(builder, m))

CallKeyRetriever ==
  \E kr \in KeyRetrievers :
    Invoke("FileDecryptionProperties", "key_retriever", kr, key_retriever(builder, kr))

CallDisableFooterSignatureVerification ==
  Invoke("FileDecryptionProperties", "disable_footer_signature_verification", <<>>,
         disable_footer_signature_verification(builder))

CallDecryptionAadPrefix ==
  \E prefix \in {NoBytes, fileName, otherName} :
    Invoke("FileDecryptionProperties", "aad_prefix", prefix, DecryptionAadPrefix(builder, prefix))

CallAadPrefixVerifier ==
  \E v \in AadPrefixVerifiers :
    Invoke("FileDecryptionProperties", "aad_prefix_verifier", v,
           aad_prefix_verifier(builder, v))

CallFileDecryptionBuild ==
  Invoke("FileDecryptionProperties", "build", <<>>, FileDecryptionBuild(builder))

NewColumnEncryptionBuilder ==
  \E path \in BuilderPaths : Construct(ColumnEncryptionBuilder(path))

CallColumnEncryptionKey ==
  \E n \in KeyLengths :
    Invoke("ColumnEncryptionProperties", "key", KeyBytes(n), ColumnKey(builder, KeyBytes(n)))

CallColumnKeyMetadata ==
  \E m \in {NoBytes, kc1, kc2} :
    Invoke("ColumnEncryptionProperties", "key_metadata", m, ColumnKeyMetadata(builder, m))

CallColumnEncryptionBuild ==
  Invoke("ColumnEncryptionProperties", "build", <<>>, ColumnEncryptionBuild(builder))

NewColumnDecryptionBuilder ==
  \E path \in BuilderPaths : Construct(ColumnDecryptionBuilder(path))

CallColumnDecryptionKey ==
  \E n \in KeyLengths :
    Invoke("ColumnDecryptionProperties", "key", KeyBytes(n), ColumnKey(builder, KeyBytes(n)))

CallColumnDecryptionBuild ==
  Invoke("ColumnDecryptionProperties", "build", <<>>, ColumnDecryptionBuild(builder))

BuilderNext ==
  \/ NewFileEncryptionBuilder
  \/ CallEnablePlaintextFooter
  \/ CallAlgorithm
  \/ CallFooterKeyMetadata
  \/ CallEncryptionAadPrefix
  \/ CallDisableStoreAadPrefixStorage
  \/ CallEncryptionColumnProperties
  \/ CallFileEncryptionBuild
  \/ NewFileDecryptionBuilder
  \/ CallFooterKey
  \/ CallDecryptionColumnProperties
  \/ CallKeyRetriever
  \/ CallDisableFooterSignatureVerification
  \/ CallDecryptionAadPrefix
  \/ CallAadPrefixVerifier
  \/ CallFileDecryptionBuild
  \/ NewColumnEncryptionBuilder
  \/ CallColumnEncryptionKey
  \/ CallColumnKeyMetadata
  \/ CallColumnEncryptionBuild
  \/ NewColumnDecryptionBuilder
  \/ CallColumnDecryptionKey
  \/ CallColumnDecryptionBuild

BuilderSpec == Init /\ [][BuilderNext]_vars

-----------------------------------------------------------------------------
(* A column encryption builder made from a name, next to the one made from *)
(* the path of that name; every call goes to both.                         *)

NewColumnEncryptionBuilders ==
  /\ builder = NoBuilder
  /\ \E name \in ColumnNames, indeterminate \in BOOLEAN :
       builder' = [kind |-> "ColumnEncryptionBuilders", name |-> name,
                   by_name |-> ColumnEncryptionBuilderOfName(name, indeterminate),
                   by_path |-> ColumnEncryptionBuilder(<<FromDotString(name)>>)]
  /\ call' = [NoCall EXCEPT !.op = "Builder", !.ops = {"Builder"}]
  /\ UNCHANGED <<reader_vars, crypto_vars, page_vars>>

\* method op with argument arg on both builders; a DCHECK aborts in both or
\* in neither, the two being of one build
InvokeBoth(op, arg, F(_)) ==
  /\ builder.kind = "ColumnEncryptionBuilders"
  /\ call.outcome # "aborted"
  /\ \E r1 \in F(builder.by_name), r2 \in F(builder.by_path) :
       /\ (r1.outcome = "aborted") = (r2.outcome = "aborted")
       /\ builder' = [builder EXCEPT !.by_name = r1.builder, !.by_path = r2.builder]
       /\ call' = [op |-> op, arg |-> arg, outcome |-> r1.outcome, what |-> r1.what,
                   before |-> builder, built |-> <<r1.built, r2.built>>,
                   ops |-> call.ops \cup {op}]
  /\ UNCHANGED <<reader_vars, crypto_vars, page_vars>>

CallBothKey ==
  \E n \in {0, 16, 17} :
    InvokeBoth("key", KeyBytes(n), LAMBDA b : ColumnKey(b, KeyBytes(n)))

CallBothKeyMetadata ==
  \E m \in {NoBytes, kc1, kc2} :
    InvokeBoth("key_metadata", m, LAMBDA b : ColumnKeyMetadata(b, m))

CallBothBuild ==
  InvokeBoth("build", <<>>, LAMBDA b : ColumnEncryptionBuildOf(b))

ColumnBuilderNext ==
  \/ NewColumnEncryptionBuilders
  \/ CallBothKey
  \/ CallBothKeyMetadata
  \/ CallBothBuild

ColumnBuilderSpec == Init /\ [][ColumnBuilderNext]_vars

-----------------------------------------------------------------------------
(* The operations on a pair of cipher instances, and the AAD functions.    *)

Usable(c) == c # <<>> /\ c[1].ctx = "live" /\ ~c[1].destroyed

\* an AesEncryptor and the AesDecryptor of the same algorithm, key length
\* and module class, as one file's encryptor and decryptor hold them
NewCiphers ==
  /\ aes = NoCiphers
  /\ \E alg_id \in {AES_GCM_V1, AES_GCM_CTR_V1}, key_len \in CipherKeyLengths,
        metadata \in BOOLEAN :
       aes' = [encryptor |-> <<NewCipher(alg_id, key_len, metadata)>>,
               decryptor |-> <<NewCipher(alg_id, key_len, metadata)>>]
  /\ io' = Operation("AesEncryptor", <<>>, "", <<>>)
  /\ UNCHANGED <<reader_vars, builder_vars, page_vars>>

CallEncrypt ==
  /\ Usable(aes.encryptor)
  /\ \E plaintext \in Plaintexts, key \in CipherKeys, aad \in CipherAads,
        nonce \in Nonces :
       LET r == Encrypt(aes.encryptor[1], plaintext, key, aad, nonce) IN
       io' = Operation("Encrypt", [plaintext |-> plaintext, key |-> key, aad |-> aad],
                       r.err, r.out)
  /\ UNCHANGED <<reader_vars, builder_vars, aes, page_vars>>

\* Decrypt of the bytes the last Encrypt returned
CallDecrypt ==
  /\ Usable(aes.decryptor)
  /\ io.op = "Encrypt" /\ io.err = ""
  /\ \E key \in CipherKeys, aad \in CipherAads :
       LET r == Decrypt(aes.decryptor[1], io.out, key, aad) IN
       io' = Operation("Decrypt",
                       [encrypted |-> io.args, ciphertext |-> io.out,
                        key |-> key, aad |-> aad],
                       r.err, r.out)
  /\ UNCHANGED <<reader_vars, builder_vars, aes, page_vars>>

CallWipeOut ==
  /\ \E side \in {"encryptor", "decryptor"} :
       /\ aes[side] # <<>>
       /\ ~aes[side][1].destroyed
       /\ aes[side][1].wipe_outs < MaxWipeOuts
       /\ aes' = [aes EXCEPT ![side] = <<[WipeOut(@[1]) EXCEPT !.wipe_outs = @ + 1]>>]
       /\ io' = Operation("WipeOut", side, "", <<>>)
  /\ UNCHANGED <<reader_vars, builder_vars, page_vars>>

Destroy ==
  /\ \E side \in {"encryptor", "decryptor"} :
       /\ aes[side] # <<>>
       /\ ~aes[side][1].destroyed
       /\ aes' = [aes EXCEPT ![side] = <<Destructor(@[1])>>]
       /\ io' = Operation("Destructor", side, "", <<>>)
  /\ UNCHANGED <<reader_vars, builder_vars, page_vars>>

CallCreateModuleAAD ==
  /\ \E fileAAD \in FileAads, module_type \in PageModules,
        rg \in ChunkOrdinals, col \in ChunkOrdinals, page \in Ordinals :
       io' = Operation("createModuleAAD",
                       [fileAAD |-> fileAAD, module_type |-> module_type,
                        row_group_ordinal |-> rg, column_ordinal |-> col,
                        page_ordinal |-> page],
                       "", createModuleAAD(fileAAD, module_type, rg, col, page))
  /\ UNCHANGED <<reader_vars, builder_vars, aes, page_vars>>

\* quickUpdatePageAAD on the AAD the last call built or updated
CallQuickUpdatePageAAD ==
  /\ io.op \in {"createModuleAAD", "quickUpdatePageAAD"}
  /\ \E q \in Ordinals :
       io' = Operation("quickUpdatePageAAD",
                       [built |-> IF io.op = "createModuleAAD" THEN io.args
                                  ELSE io.args.built,
                        AAD |-> io.out, new_page_ordinal |-> q],
                       "", quickUpdatePageAAD(io.out, q))
  /\ UNCHANGED <<reader_vars, builder_vars, aes, page_vars>>

CryptoNext ==
  \/ NewCiphers
  \/ CallEncrypt
  \/ CallDecrypt
  \/ CallWipeOut
  \/ Destroy

CryptoSpec == Init /\ [][CryptoNext]_vars

AadNext ==
  \/ CallCreateModuleAAD
  \/ CallQuickUpdatePageAAD

AadSpec == Init /\ [][AadNext]_vars

-----------------------------------------------------------------------------
(* The page reader of a column chunk.                                      *)

\* the decryptors of a reader that resolved the key of the column
ChunkDecryptor(P, col, metadata) ==
  IF ColumnIsEncrypted(P, PathOf(col))
    THEN <<[key |-> ColumnEncryptionKey(P, PathOf(col)), file_aad |-> FileAadOf(P),
            algorithm |-> P.cipher, metadata |-> metadata]>>
    ELSE <<>>

\* GetColumnPageReader on a column chunk of a file written with P: a new
\* PageReader, after the one of the chunk before was read to its end
OpenPageReader ==
  /\ ~page_reader.open \/ page_reader.position = Len(page_reader.pages)
                       \/ page_reader.err # ""
  /\ page_reader.opened < MaxChunks
  /\ \E P \in FileEncryptionPropertiesSet, rg \in RowGroupOrdinals,
        col \in ColumnOrdinals, n \in 0..MaxDictionaryPages :
       page_reader' =
         NewPageReader(ChunkPages(P, rg, col, n), n > 0,
                       PageReaderOpen("", rg, col, ChunkDecryptor(P, col, TRUE),
                                      ChunkDecryptor(P, col, FALSE)),
                       page_reader.opened + 1)
  /\ UNCHANGED <<reader_vars, builder_vars, crypto_vars>>

CallNextPage ==
  /\ page_reader.open
  /\ page_reader.err = ""
  /\ page_reader.position < Len(page_reader.pages)
  /\ page_reader' = NextPage(page_reader)
  /\ UNCHANGED <<reader_vars, builder_vars, crypto_vars>>

PageReaderNext ==
  \/ OpenPageReader
  \/ CallNextPage

PageReaderSpec == Init /\ [][PageReaderNext]_vars

-----------------------------------------------------------------------------
(* Vocabulary of the properties.                                           *)

Opened == reader.status # "none"

OpenedOk == reader.status \in {"open", "closed"}

Called(run, op) == \E k \in DOMAIN run.events : run.events[k].op = op

CallIndex(run, op) == CHOOSE k \in DOMAIN run.events : run.events[k].op = op

\* the error taxonomy
CorruptFooter ==
  {ErrTooSmall, ErrLessThanMetadata, ErrReadMetadata, ErrReadFooter, ErrCorruptFooter}

NoDecryptionProperties == {ErrNoProperties, ErrNoPropertiesEncrypted}

FooterSignatureInvalid == {ErrCannotVerify, ErrNotVerified}

\* the file was produced with encryption properties, and which
Encrypted == written.props # <<>>

WriterProps == written.props[1]

ReaderHasProps == reader.props # <<>>

ReaderProps == reader.props[1]

\* the run got as far as the algorithm descriptor with properties at hand
SawAlgorithm ==
  /\ ReaderHasProps
  /\ \/ /\ reader.run.branch = PARQUET_MAGIC
        /\ reader.run.file_metadata # <<>>
        /\ reader.run.file_metadata[1].encryption_algorithm # <<>>
     \/ /\ reader.run.branch = PARQUET_EMAGIC
        /\ reader.run.file_crypto_metadata # <<>>

AlgorithmSeen ==
  IF reader.run.branch = PARQUET_MAGIC
    THEN reader.run.file_metadata[1].encryption_algorithm[1]
    ELSE reader.run.file_crypto_metadata[1].encryption_algorithm

InstalledFileAad == reader.run.file_decryptor[1].file_aad

\* D resolves the footer key of P and the key of every column of P that has
\* its own key, by explicit key or by retriever
Retrieves(D, key_metadata, key) ==
  /\ D.key_retriever # <<>>
  /\ key_metadata \in DOMAIN D.key_retriever[1]
  /\ D.key_retriever[1][key_metadata] = key

ResolvesFooterKey(P, D) ==
  \/ D.footer_key = P.footer_key
  \/ D.footer_key = NoBytes /\ Retrieves(D, P.footer_key_metadata, P.footer_key)

ResolvesColumnKey(P, D, path) ==
  ColumnHasOwnKey(P, path) =>
    \/ column_key(D, path) = P.column_properties[path].key
    \/ /\ column_key(D, path) = NoBytes
       /\ Retrieves(D, P.column_properties[path].key_metadata,
                    P.column_properties[path].key)

ResolvesAllKeys(P, D) ==
  ResolvesFooterKey(P, D) /\ \A i \in ColumnOrdinals : ResolvesColumnKey(P, D, PathOf(i))

SuppliesUnstoredPrefix(P, D) ==
  (P.aad_prefix # NoBytes /\ ~P.store_aad_prefix_in_file) => D.aad_prefix = P.aad_prefix

ReadsBack ==
  /\ reader.status # "failed"
  /\ \A i \in ColumnOrdinals :
       \/ columns_read[i].state = "unread"
       \/ /\ columns_read[i].state = "read"
          /\ columns_read[i].values = ColumnValues(reader.row_group[1], i)

AllColumnsRead == \A i \in ColumnOrdinals : columns_read[i].state = "read"

-----------------------------------------------------------------------------
(* C1: a file written with encryption properties P and read with           *)
(* decryption properties D that resolve the footer key and the key of      *)
(* every encrypted column and supply the aad prefix when the file does not *)
(* store it gives back the values written, provided also that the prefix   *)
(* of D, when set, is the prefix the file was written with, and that the   *)
(* verifier of D, if any, accepts the prefix of the file.                  *)

PrefixAgrees(P, D) == D.aad_prefix \in {NoBytes, P.aad_prefix}

VerifierAccepts(P, D) ==
  \/ D.aad_prefix_verifier = <<>>
  \/ P.aad_prefix = NoBytes
  \/ P.aad_prefix \in D.aad_prefix_verifier[1]

C1_RoundTrip ==
  (/\ Opened /\ Encrypted /\ written.intact /\ ReaderHasProps
   /\ ResolvesAllKeys(WriterProps, ReaderProps)
   /\ SuppliesUnstoredPrefix(WriterProps, ReaderProps)
   /\ PrefixAgrees(WriterProps, ReaderProps)
   /\ VerifierAccepts(WriterProps, ReaderProps))
  => ReadsBack

\* C1 as stated: whatever other options D sets
C1_RoundTripWhateverOptions ==
  (/\ Opened /\ Encrypted /\ written.intact /\ ReaderHasProps
   /\ ResolvesAllKeys(WriterProps, ReaderProps)
   /\ SuppliesUnstoredPrefix(WriterProps, ReaderProps))
  => ReadsBack

C1_Witness ==
  /\ Encrypted /\ written.intact /\ ReaderHasProps /\ AllColumnsRead
  /\ WriterProps.column_properties = TwoKeyColumns
  /\ WriterProps.cipher = AES_GCM_CTR_V1
  /\ WriterProps.aad_prefix # NoBytes /\ ~WriterProps.store_aad_prefix_in_file
  /\ ReaderProps.aad_prefix_verifier # <<>>
  /\ ResolvesAllKeys(WriterProps, ReaderProps)

(* C2: on every successful open of an encrypted file the file AAD          *)
(* installed in the file decryptor is the file AAD of the writer, the      *)
(* writer's aad prefix followed by aad_file_unique, whether or not the     *)
(* file stores a prefix and whether or not the properties carry one (a     *)
(* prefix carried for a file written with a prefix being that prefix).     *)

C2_FileAadAsWritten ==
  (/\ OpenedOk /\ Encrypted /\ reader.run.file_decryptor # <<>>
   /\ (WriterProps.aad_prefix # NoBytes => PrefixAgrees(WriterProps, ReaderProps)))
  => InstalledFileAad = FileAadOf(WriterProps)

(* C3: the last 4 bytes select the branch: PAR1 the plaintext-footer       *)
(* branch, PARE the encrypted-footer branch; a file of fewer than 8 bytes, *)
(* a short read of the tail or any other magic is a corrupt footer, with   *)
(* no metadata parsed and no decryptor instantiated.                       *)

C3_MagicSelectsBranch ==
  Opened =>
    LET f == file[1]
        run == reader.run
        readable == f.size >= FOOTER_SIZE /\ ~f.tail_short IN
    /\ (readable /\ f.magic = PARQUET_MAGIC) => run.branch = PARQUET_MAGIC
    /\ (readable /\ f.magic = PARQUET_EMAGIC) => run.branch = PARQUET_EMAGIC
    /\ ~(readable /\ f.magic \in {PARQUET_MAGIC, PARQUET_EMAGIC}) =>
         /\ run.branch = "none"
         /\ run.err \in CorruptFooter
         /\ ~Called(run, "FileMetaData::Make")
         /\ ~Called(run, "FileCryptoMetaData::Make")
         /\ run.file_decryptor = <<>>
         /\ reader.status = "failed"

C3_Witness ==
  /\ Opened /\ file[1].size >= FOOTER_SIZE /\ file[1].tail_short
  /\ file[1].magic = PARQUET_EMAGIC /\ reader.run.err = ErrCorruptFooter

(* C4: for every 32-bit length L before the magic and every file size      *)
(* S >= 8, the open fails with the corrupt-footer error whenever           *)
(* 8 + L > S as numbers, in both branches; so no read or copy is issued    *)
(* at an offset below 0 or beyond the bytes at hand.                       *)

C4_LengthChecked ==
  Opened =>
    LET f == file[1]
        run == reader.run IN
    /\ (/\ run.branch \in {PARQUET_MAGIC, PARQUET_EMAGIC}
        /\ WideLess(ToWide(f.size), WideAdd(ToWide(FOOTER_SIZE), f.len)))
       => run.err \in CorruptFooter
    /\ \A k \in DOMAIN run.reads : InBounds(run.reads[k])

(* C5: a PAR1 footer that declares an encryption algorithm, or a PARE      *)
(* file, opened without file decryption properties fails with the          *)
(* no-decryption-properties error (a PARE file whose footer cannot be      *)
(* read at all fails earlier, as a corrupt footer) and no decryptor is     *)
(* instantiated; a PAR1 footer that declares no algorithm never raises     *)
(* that error and opens with or without decryption properties.             *)

FooterReadable(f) ==
  /\ f.size >= FOOTER_SIZE /\ ~f.tail_short
  /\ f.len = ToWide(f.footer_len)
  /\ ~(f.body_short /\ f.footer_len + FOOTER_SIZE > DEFAULT_FOOTER_READ_SIZE)

C6_StoredPrefixCompared ==
  (Opened /\ SawAlgorithm /\ AlgorithmSeen.aad.aad_prefix # NoBytes) =>
    LET run == reader.run
        stored == AlgorithmSeen.aad.aad_prefix
        supplied == ReaderProps.aad_prefix IN
    /\ (supplied # NoBytes /\ supplied # stored)
       => run.err = ErrPrefixDiffer /\ ~Called(run, "file_aad")
    /\ (supplied = NoBytes \/ supplied = stored) => run.err # ErrPrefixDiffer
    /\ Called(run, "file_aad")
       => InstalledFileAad = stored \o AlgorithmSeen.aad.aad_file_unique

C6_Witness ==
  /\ Opened /\ SawAlgorithm /\ AlgorithmSeen.aad.aad_prefix # NoBytes
  /\ ReaderProps.aad_prefix = otherName
  /\ reader.run.err = ErrPrefixDiffer
  /\ reader.run.branch = PARQUET_EMAGIC

(* C7: when the algorithm descriptor has supply_aad_prefix set and the     *)
(* file stores no prefix, the open fails with the prefix-missing error if  *)
(* and only if the decryption properties carry no prefix; with a prefix    *)
(* supplied the open proceeds to install the file AAD.                     *)

C7_PrefixMissing ==
  (/\ Opened /\ SawAlgorithm
   /\ AlgorithmSeen.aad.supply_aad_prefix /\ AlgorithmSeen.aad.aad_prefix = NoBytes) =>
    LET run == reader.run IN
    /\ run.err = ErrPrefixMissing <=> ReaderProps.aad_prefix = NoBytes
    /\ ReaderProps.aad_prefix # NoBytes
       => /\ Called(run, "file_aad")
          /\ InstalledFileAad = ReaderProps.aad_prefix \o AlgorithmSeen.aad.aad_file_unique

C7_Witness ==
  /\ Opened /\ SawAlgorithm /\ AlgorithmSeen.aad.supply_aad_prefix
  /\ ReaderProps.aad_prefix = NoBytes /\ reader.run.err = ErrPrefixMissing
  /\ reader.run.branch = PARQUET_MAGIC

(* C8: whenever a verifier is configured and the open of an encrypted file *)
(* installs a file AAD with a non-empty prefix, check has been invoked     *)
(* with that final prefix, read from the file or supplied by the caller,   *)
(* before the file AAD is installed; an exception from the verifier        *)
(* aborts the open.                                                        *)

C8_VerifierInvoked ==
  (Opened /\ SawAlgorithm /\ ReaderProps.aad_prefix_verifier # <<>>) =>
    LET run == reader.run IN
    /\ (Called(run, "file_aad") /\ InstalledFileAad # AlgorithmSeen.aad.aad_file_unique)
       => /\ Called(run, "check")
          /\ CallIndex(run, "check") < CallIndex(run, "file_aad")
          /\ run.events[CallIndex(run, "check")].arg \o AlgorithmSeen.aad.aad_file_unique
               = InstalledFileAad
    /\ run.err = ErrVerifierRejected
       => reader.status = "failed" /\ ~Called(run, "file_aad")

(* C9: a PAR1 footer that declares encryption, opened with                 *)
(* check_plaintext_footer_integrity true: the open succeeds only if        *)
(* exactly 28 bytes are left after the parsed metadata and the footer      *)
(* signing encryptor reproduces them from the footer; another length, or   *)
(* a trailer that the signing encryptor does not reproduce, fails the      *)
(* open with the footer-signature error.                                   *)

PlaintextFooterReconciled ==
  /\ Opened /\ SawAlgorithm /\ reader.run.branch = PARQUET_MAGIC
  /\ Called(reader.run, "file_aad")

SigningKey == GetFooterKey(reader.run.file_decryptor[1])

TrailerReproduced ==
  /\ SigningKey.err = ""
  /\ file[1].trailer # <<>>
  /\ file[1].trailer[1] =
       SignedFooterEncrypt(reader.run.file_metadata[1], SigningKey.key,
                           createFooterAAD(InstalledFileAad), file[1].trailer[1].nonce)

C9_FooterSignatureChecked ==
  (PlaintextFooterReconciled /\ ReaderProps.check_plaintext_footer_integrity) =>
    LET run == reader.run IN
    /\ OpenedOk => file[1].trailer_len = SignatureLen /\ TrailerReproduced
    /\ file[1].trailer_len # SignatureLen => run.err = ErrCannotVerify
    /\ (file[1].trailer_len = SignatureLen /\ SigningKey.err = "" /\ ~TrailerReproduced)
       => run.err = ErrNotVerified
    /\ run.err # "" => reader.status = "failed"

C9_Witness ==
  /\ PlaintextFooterReconciled /\ ReaderProps.check_plaintext_footer_integrity
  /\ file[1].trailer_len = SignatureLen /\ ~written.intact
  /\ reader.run.err = ErrNotVerified

(* C10: a PAR1 footer that declares encryption, opened with                *)
(* check_plaintext_footer_integrity false: the trailer is not inspected    *)
(* and the footer signing encryptor is not requested; the open succeeds    *)
(* with the trailer present, absent or wrong, and without a resolvable     *)
(* footer key.                                                             *)

C10_NoSignatureCheck ==
  (PlaintextFooterReconciled /\ ~ReaderProps.check_plaintext_footer_integrity) =>
    /\ reader.run.err = ""
    /\ OpenedOk
    /\ ~Called(reader.run, "GetFooterSigningEncryptor")
    /\ ~Called(reader.run, "verify")

C10_Witness ==
  /\ PlaintextFooterReconciled /\ ~ReaderProps.check_plaintext_footer_integrity
  /\ file[1].trailer = <<>>
  /\ SigningKey.err = KeyUnavailable
  /\ reader.status = "open"

(* C11: GetColumnPageReader dispatches on the crypto metadata of the       *)
(* column chunk: absent, the page reader has no decryptors; present with   *)
(* encrypted_with_footer_key, it has the (meta, data) pair of the footer   *)
(* key; present otherwise, the (meta, data) pair of the column key         *)
(* resolved from the stored path_in_schema and key_metadata; in every case *)
(* the page reader has the row-group ordinal and the column ordinal of     *)
(* the chunk.                                                              *)

PageReaderOf(i) == columns_read[i].page_reader[1]

ChunkOf(i) == reader.run.file_metadata[1].row_groups[reader.row_group[1] + 1][i + 1]

HasDecryptorPair(pr, k, dec) ==
  /\ pr.err = k.err
  /\ k.err = "" => /\ pr.meta_decryptor = Decryptor(k.key, dec, TRUE)
                   /\ pr.data_decryptor = Decryptor(k.key, dec, FALSE)

C11_Dispatch ==
  \A i \in ColumnOrdinals :
    columns_read[i].page_reader # <<>> =>
      LET pr == PageReaderOf(i)
          cm == ChunkOf(i).crypto_metadata IN
      /\ pr.row_group_ordinal = reader.row_group[1]
      /\ pr.column_ordinal = i
      /\ cm = <<>>
         => pr.err = "" /\ pr.meta_decryptor = <<>> /\ pr.data_decryptor = <<>>
      /\ (cm # <<>> /\ cm[1].encrypted_with_footer_key)
         => HasDecryptorPair(pr, GetFooterKey(reader.run.file_decryptor[1]),
                             reader.run.file_decryptor[1])
      /\ (cm # <<>> /\ ~cm[1].encrypted_with_footer_key)
         => HasDecryptorPair(pr, GetColumnKey(reader.run.file_decryptor[1],
                                              cm[1].path_in_schema, cm[1].key_metadata),
                             reader.run.file_decryptor[1])

C11_Witness ==
  /\ Encrypted /\ WriterProps.column_properties = KeyAndFooterKeyColumns
  /\ reader.row_group = <<1>>
  /\ AllColumnsRead
  /\ PageReaderOf(0).data_decryptor # <<>>
  /\ PageReaderOf(0).data_decryptor[1].key = kFooterEncryptionKey
  /\ PageReaderOf(1).data_decryptor = <<>>
  /\ PageReaderOf(2).data_decryptor[1].key = kColumnEncryptionKey1

(* C12: the footer key and the key of a column with its own key are        *)
(* resolved in a fixed order: an explicit key of the decryption properties *)
(* is the key, the retriever is then not invoked and the stored key        *)
(* metadata plays no part; otherwise, with key metadata stored and a       *)
(* retriever configured, the retriever is invoked with exactly those       *)
(* bytes; otherwise the resolution fails with KeyUnavailable.              *)

InOrder(k, D, explicit_key, key_metadata) ==
  /\ explicit_key # NoBytes
     => k.err = "" /\ k.key = explicit_key /\ k.get_key = <<>>
  /\ (explicit_key = NoBytes /\ key_metadata # NoBytes /\ D.key_retriever # <<>>)
     => /\ k.get_key = <<key_metadata>>
        /\ k.key = GetKey(D.key_retriever[1], key_metadata)
  /\ (explicit_key = NoBytes /\ (key_metadata = NoBytes \/ D.key_retriever = <<>>))
     => k.err = KeyUnavailable /\ k.get_key = <<>>

DecryptorSetUp == Opened /\ Called(reader.run, "footer_key_metadata")

OwnKeyColumnRequested(i) ==
  /\ columns_read[i].page_reader # <<>>
  /\ ChunkOf(i).crypto_metadata # <<>>
  /\ ~ChunkOf(i).crypto_metadata[1].encrypted_with_footer_key

C12_KeyResolutionOrder ==
  /\ DecryptorSetUp =>
       LET dec == reader.run.file_decryptor[1] IN
       /\ InOrder(GetFooterKey(dec), dec.properties, dec.properties.footer_key,
                  dec.footer_key_metadata)
       /\ (Called(reader.run, "GetFooterDecryptor") /\ GetFooterKey(dec).err # "")
          => reader.run.err = KeyUnavailable
  /\ \A i \in ColumnOrdinals :
       OwnKeyColumnRequested(i) =>
         LET dec == reader.run.file_decryptor[1]
             cm == ChunkOf(i).crypto_metadata[1]
             k == GetColumnKey(dec, cm.path_in_schema, cm.key_metadata) IN
         /\ InOrder(k, dec.properties, column_key(dec.properties, cm.path_in_schema),
                    cm.key_metadata)
         /\ PageReaderOf(i).err = k.err
         /\ k.err = "" => PageReaderOf(i).data_decryptor[1].key = k.key

C12_Witness ==
  /\ DecryptorSetUp /\ reader.run.branch = PARQUET_EMAGIC
  /\ ReaderProps.footer_key = NoBytes /\ ReaderProps.key_retriever = <<string_kr>>
  /\ ReaderProps.column_properties = ExplicitColumnKeys
  /\ OwnKeyColumnRequested(2) /\ columns_read[2].state = "read"
  /\ ChunkOf(2).crypto_metadata[1].key_metadata = kc1

(* C13: when the decryption properties resolve the footer key, and their   *)
(* prefix and verifier agree with the file, the file opens; requesting an  *)
(* own-key column whose key they do not resolve fails with KeyUnavailable, *)
(* and every other column of the row group is read with the values         *)
(* written, whether requested before or after the failing column.          *)

Requested(i) == columns_read[i].state # "unread"

ColumnOutcomes ==
  /\ reader.status # "failed"
  /\ \A i \in ColumnOrdinals :
       Requested(i) =>
         IF ResolvesColumnKey(WriterProps, ReaderProps, PathOf(i))
           THEN /\ columns_read[i].state = "read"
                /\ columns_read[i].values = ColumnValues(reader.row_group[1], i)
           ELSE /\ columns_read[i].state = "failed"
                /\ columns_read[i].err = KeyUnavailable

OneHiddenColumn ==
  /\ Opened /\ Encrypted /\ written.intact /\ ReaderHasProps
  /\ ResolvesFooterKey(WriterProps, ReaderProps)
  /\ Cardinality({i \in ColumnOrdinals :
                    ~ResolvesColumnKey(WriterProps, ReaderProps, PathOf(i))}) = 1

CryptoErrors ==
  {KeyUnavailable, AeadFailure, ErrPrefixDiffer, ErrPrefixMissing, ErrVerifierRejected,
   ErrCannotVerify, ErrNotVerified}

CryptoFailure ==
  \/ reader.run.err \in CryptoErrors
  \/ \E i \in ColumnOrdinals : columns_read[i].err \in CryptoErrors

C14_ClosedAfterCryptoFailure ==
  CryptoFailure => reader.status \in {"failed", "closed"} /\ reader.ciphers = {}

(* C15: an encrypted file opened with decryption properties that carry     *)
(* neither a footer key nor a key retriever fails to open when its footer  *)
(* is encrypted, or when its footer is plaintext and                       *)
(* check_plaintext_footer_integrity is true; the properties are accepted   *)
(* when built and the failure is raised by ParseMetaData.                  *)

NoFooterKeySource ==
  /\ Opened /\ Encrypted /\ ReaderHasProps
  /\ ReaderProps.footer_key = NoBytes /\ ReaderProps.key_retriever = <<>>

C15_NoFooterKeySource ==
  (/\ NoFooterKeySource
   /\ file[1].magic = PARQUET_EMAGIC \/ ReaderProps.check_plaintext_footer_integrity)
  => reader.status = "failed" /\ reader.run.err # ""

\* C15 as stated: every encrypted file, in either footer variant
C15_EveryFooterVariant == NoFooterKeySource => reader.status = "failed"

C15_Witness ==
  /\ NoFooterKeySource /\ written.intact
  /\ file[1].magic = PARQUET_EMAGIC
  /\ ReaderProps.column_properties = ExplicitColumnKeys
  /\ Called(reader.run, "GetFooterDecryptor")
  /\ reader.run.err = KeyUnavailable /\ reader.status = "failed"

-----------------------------------------------------------------------------
(* The property builders.                                                  *)

FileBuilder == builder.kind \in {"FileEncryptionProperties", "FileDecryptionProperties"}

EncryptionBuilder == builder.kind = "FileEncryptionProperties"

ColumnPropertiesCalled == FileBuilder /\ call.op = "column_properties"

(* C16: on the file encryption and the file decryption builder, a          *)
(* column_properties call with an empty map returns and leaves the builder *)
(* unchanged, the first call with a non-empty map stores it, and a later   *)
(* call with a non-empty map throws 'Column properties already set' and    *)
(* leaves the builder, stored map included, unchanged.                     *)

C16_ColumnPropertiesOnce ==
  ColumnPropertiesCalled =>
    IF call.arg = NoColumnProperties
      THEN call.outcome = "returned" /\ builder = call.before
    ELSE IF call.before.column_properties = NoColumnProperties
      THEN /\ call.outcome = "returned"
           /\ builder = [call.before EXCEPT !.column_properties = call.arg]
    ELSE /\ call.outcome = "thrown" /\ call.what = ColumnPropertiesAlreadySet
         /\ builder = call.before

C16_Witness ==
  /\ ColumnPropertiesCalled
  /\ builder.kind = "FileDecryptionProperties"
  /\ call.what = ColumnPropertiesAlreadySet
  /\ builder.column_properties = ExplicitColumnKeys
  /\ call.arg = OneColumnKey

(* C17: disable_store_aad_prefix_storage() on a file encryption builder    *)
(* with no aad_prefix set throws and leaves the builder unchanged; with an *)
(* aad_prefix set it returns and prefix storage is off.                    *)

C17_DisableNeedsPrefix ==
  (EncryptionBuilder /\ call.op = "disable_store_aad_prefix_storage") =>
    IF call.before.aad_prefix = NoBytes
      THEN call.outcome = "thrown" /\ builder = call.before
      ELSE call.outcome = "returned" /\ ~builder.store_aad_prefix_in_file

(* C18: on a file encryption builder, store_aad_prefix_in_file is true     *)
(* only if aad_prefix is non-empty, in the builder and in the properties   *)
(* it builds; and at build(), when an aad_prefix is set and                *)
(* disable_store_aad_prefix_storage was never called, it is true.          *)

BuildCalled == call.op = "build"

C18_StoreOnlyWithPrefix ==
  EncryptionBuilder =>
    /\ builder.store_aad_prefix_in_file => builder.aad_prefix # NoBytes
    /\ (BuildCalled /\ call.built # <<>> /\ call.built[1].store_aad_prefix_in_file)
         => call.built[1].aad_prefix # NoBytes
    /\ (/\ BuildCalled /\ builder.aad_prefix # NoBytes
        /\ "disable_store_aad_prefix_storage" \notin call.ops)
         => /\ builder.store_aad_prefix_in_file
            /\ call.built # <<>> => call.built[1].store_aad_prefix_in_file

C18_Witness ==
  /\ EncryptionBuilder /\ BuildCalled /\ call.built # <<>>
  /\ call.built[1].aad_prefix = fileName
  /\ call.built[1].store_aad_prefix_in_file
  /\ {"algorithm", "enable_plaintext_footer", "footer_key_metadata", "column_properties"}
       \subseteq call.ops
  /\ "disable_store_aad_prefix_storage" \notin call.ops

(* C19: build() on each of the four property builders throws               *)
(* KeyLengthInvalid for a non-empty footer key or column key that is not   *)
(* 16, 24 or 32 bytes long, builds the properties for a key of one of      *)
(* these lengths, and builds them for an optional key that is empty.       *)

KeyOfBuilder(b) ==
  IF b.kind \in {"FileEncryptionProperties", "FileDecryptionProperties"}
    THEN b.footer_key ELSE b.key

C19_KeyLengthAtBuild ==
  (builder.kind # "none" /\ BuildCalled) =>
    LET key == KeyOfBuilder(call.before) IN
    IF key # NoBytes /\ ~ValidKeyLength(key)
      THEN call.outcome = "thrown" /\ call.what = KeyLengthInvalid /\ call.built = <<>>
    ELSE IF key # NoBytes \/ ~EncryptionBuilder
      THEN call.outcome = "returned" /\ call.built # <<>>
    ELSE TRUE

C19_Witness ==
  /\ builder.kind = "ColumnEncryptionProperties" /\ BuildCalled
  /\ Len(builder.key) = 33
  /\ call.what = KeyLengthInvalid

(* C20: in the files written with the properties a file encryption builder *)
(* builds: with no column map stored in the builder every column is        *)
(* encrypted with the footer key; with a map stored, a column in the map   *)
(* with a key is encrypted with that key, a column in the map without a    *)
(* key is encrypted with the footer key and marked so, and a column not in *)
(* the map is not encrypted and its chunks carry no crypto metadata.       *)

ModulesOf(chunk) ==
  {chunk.pages[p].header : p \in DOMAIN chunk.pages}
    \cup {chunk.pages[p].body : p \in DOMAIN chunk.pages}

EncryptedWith(chunk, key) == \A m \in ModulesOf(chunk) : m.enc /\ m.key = key

WithFooterKey(chunk, P) ==
  /\ EncryptedWith(chunk, P.footer_key)
  /\ chunk.crypto_metadata # <<>>
  /\ chunk.crypto_metadata[1].encrypted_with_footer_key

ColumnSelection(b, P, rg, col) ==
  LET chunk == WriteColumnChunk(P, rg, col)
      path == PathOf(col) IN
  IF b.column_properties = NoColumnProperties THEN WithFooterKey(chunk, P)
  ELSE IF path \notin DOMAIN b.column_properties
    THEN chunk.crypto_metadata = <<>> /\ \A m \in ModulesOf(chunk) : ~m.enc
  ELSE IF b.column_properties[path].key # NoBytes
    THEN /\ EncryptedWith(chunk, b.column_properties[path].key)
         /\ chunk.crypto_metadata # <<>>
         /\ ~chunk.crypto_metadata[1].encrypted_with_footer_key
  ELSE WithFooterKey(chunk, P)

FileEncryptionPropertiesBuilt == EncryptionBuilder /\ BuildCalled /\ call.built # <<>>

C20_ColumnSelection ==
  FileEncryptionPropertiesBuilt =>
    \A rg \in RowGroupOrdinals, col \in ColumnOrdinals :
      ColumnSelection(builder, call.built[1], rg, col)

C20_Witness ==
  /\ FileEncryptionPropertiesBuilt
  /\ builder.column_properties = KeyAndFooterKeyColumns
  /\ \E col \in ColumnOrdinals : WriteColumnChunk(call.built[1], 0, col).crypto_metadata = <<>>
  /\ \E col \in ColumnOrdinals :
       /\ PathOf(col) = "int32_field"
       /\ WithFooterKey(WriteColumnChunk(call.built[1], 0, col), call.built[1])
  /\ \E col \in ColumnOrdinals :
       EncryptedWith(WriteColumnChunk(call.built[1], 0, col), kColumnEncryptionKey1)

-----------------------------------------------------------------------------
(* The cipher instances and the module AAD.                                *)

Decrypted == io.op = "Decrypt"

(* C21: for both ciphers, the three key lengths and both module classes,   *)
(* Decrypt of the bytes Encrypt returned, with the key and the AAD of the  *)
(* Encrypt call, returns the plaintext of that call; Decrypt with a key    *)
(* whose length is not the one the decryptor was constructed for fails     *)
(* with KeyLengthMismatch.                                                 *)

C21_DecryptInvertsEncrypt ==
  Decrypted =>
    IF Len(io.args.key) # aes.decryptor[1].key_length
      THEN io.err = KeyLengthMismatch
      ELSE (io.args.key = io.args.encrypted.key /\ io.args.aad = io.args.encrypted.aad)
             => io.err = "" /\ io.out = io.args.encrypted.plaintext

C21_Witness ==
  /\ Decrypted /\ io.err = ""
  /\ aes.decryptor[1].alg_id = AES_GCM_CTR_V1 /\ ~aes.decryptor[1].metadata
  /\ aes.decryptor[1].key_length = 32
  /\ io.args.encrypted.aad # <<>>
  /\ io.out = <<255, 0>> /\ io.out = io.args.encrypted.plaintext

(* C22: the bytes Encrypt returns are 4 + 12 + 16 = 32 bytes longer than   *)
(* the plaintext when the instance is GCM, which it is for metadata = true *)
(* under either file cipher and for data under AES_GCM_V1, and 4 + 12 = 16 *)
(* bytes longer when it is CTR, a data instance under AES_GCM_CTR_V1; the  *)
(* leading 4 bytes hold, little-endian, the number of bytes after them.    *)

EncryptReturned == io.op = "Encrypt" /\ io.err = ""

DataInstanceOfCtr(c) == c.alg_id = AES_GCM_CTR_V1 /\ ~c.metadata

C22_CiphertextSizeDelta ==
  EncryptReturned =>
    LET c == aes.encryptor[1]
        delta == IF DataInstanceOfCtr(c) THEN 4 + 12 ELSE 4 + 12 + 16 IN
    /\ Len(io.out) = Len(io.args.plaintext) + delta
    /\ CiphertextSizeDelta(c) = delta
    /\ FromLe32(io.out) = Len(io.out) - 4

C22_Witness ==
  /\ EncryptReturned
  /\ aes.encryptor[1].alg_id = AES_GCM_CTR_V1 /\ aes.encryptor[1].metadata
  /\ Len(io.args.plaintext) = 2 /\ Len(io.out) = 34
  /\ SubSeq(io.out, 1, 4) = <<30, 0, 0, 0>>

(* C23: quickUpdatePageAAD with page ordinal q applied to the AAD that     *)
(* createModuleAAD built for a page module, or to such an AAD updated      *)
(* before, gives createModuleAAD of the same file AAD, module type, row    *)
(* group and column with page ordinal q: the length and all bytes but the  *)
(* last two are unchanged and the last two are q in little-endian order.   *)

QuickUpdated == io.op = "quickUpdatePageAAD"

C23_QuickUpdatePageAAD ==
  QuickUpdated =>
    LET b == io.args.built
        q == io.args.new_page_ordinal
        n == Len(io.args.AAD) IN
    /\ io.out = createModuleAAD(b.fileAAD, b.module_type, b.row_group_ordinal,
                                b.column_ordinal, q)
    /\ Len(io.out) = n
    /\ SubSeq(io.out, 1, n - 2) = SubSeq(io.args.AAD, 1, n - 2)
    /\ SubSeq(io.out, n - 1, n) = <<q % 256, q \div 256>>

C23_Witness ==
  /\ QuickUpdated
  /\ io.args.built.page_ordinal = 255 /\ io.args.new_page_ordinal = 256
  /\ io.args.built.fileAAD = fileName \o aad_file_unique
  /\ io.args.built.module_type = DictionaryPageHeader
  /\ io.args.AAD = createModuleAAD(io.args.built.fileAAD, DictionaryPageHeader,
                                   io.args.built.row_group_ordinal,
                                   io.args.built.column_ordinal, 255)
  /\ SubSeq(io.out, Len(io.out) - 1, Len(io.out)) = <<0, 1>>

(* C28: an AesEncryptor or AesDecryptor releases its cipher context at     *)
(* most once over any WipeOut calls and its destruction, and exactly once  *)
(* when destroyed: WipeOut leaves the pointer null, a WipeOut of a wiped   *)
(* instance changes nothing, and the destructor of a wiped instance        *)
(* releases nothing.                                                       *)

CipherInstances == {aes[side][1] : side \in {s \in {"encryptor", "decryptor"} : aes[s] # <<>>}}

C28_ContextReleasedOnce ==
  \A c \in CipherInstances :
    /\ c.frees <= 1
    /\ c.ctx = "null" <=> c.frees = 1
    /\ c.wipe_outs > 0 => c.ctx = "null"
    /\ c.destroyed => c.frees = 1
    /\ WipeOut(WipeOut(c)) = WipeOut(c)
    /\ c.ctx = "null" => WipeOut(c) = c /\ Destructor(c).frees = c.frees

C28_Witness ==
  \E c \in CipherInstances : c.destroyed /\ c.wipe_outs = 2 /\ c.frees = 1

-----------------------------------------------------------------------------
(* The page ordinals of a column chunk.                                    *)

DataPagesBefore(log, k) == Cardinality({j \in 1..(k - 1) : log[j].type = "data"})

(* C24: in the pages a page reader has read of one column chunk, a         *)
(* dictionary page has ordinal 0 and a second dictionary page is refused;  *)
(* the first data page has ordinal 0 and each following data page the      *)
(* ordinal of the data page before it plus one; the header and the body of *)
(* a page are decrypted with the same row-group, column and page ordinals; *)
(* and every page reader, one per column chunk, starts at 0 again.         *)

C24_PageOrdinals ==
  page_reader.open =>
    LET log == page_reader.log IN
    /\ \A k \in DOMAIN log :
         /\ log[k].header = log[k].body
         /\ log[k].header = <<page_reader.row_group_ordinal,
                              page_reader.column_ordinal, log[k].ordinal>>
         /\ log[k].type = "dictionary" => log[k].ordinal = 0
         /\ log[k].type = "data" => log[k].ordinal = DataPagesBefore(log, k)
         /\ (log[k].type = "dictionary" /\ \E j \in 1..(k - 1) : log[j].type = "dictionary")
              => log[k].err # ""
         /\ (log[k].err = "" /\ k = page_reader.position)
              => page_reader.err = ""
    /\ (page_reader.position = Len(page_reader.pages) /\ page_reader.err = "")
         => Cardinality({k \in DOMAIN log : log[k].type = "dictionary"}) <= 1
    /\ page_reader.position = 0 => page_reader.page_ordinal = 0 /\ log = <<>>
    \* the ordinals are the ones the pages were written with
    /\ Cardinality({k \in DOMAIN page_reader.pages :
                      page_reader.pages[k].type = "dictionary"}) <= 1
         => page_reader.err = ""

C24_Witness ==
  /\ page_reader.open /\ page_reader.opened = 2
  /\ page_reader.meta_decryptor # <<>>
  /\ page_reader.meta_decryptor[1].algorithm = AES_GCM_CTR_V1
  /\ page_reader.row_group_ordinal = 1
  /\ page_reader.position = Len(page_reader.pages) /\ page_reader.err = ""
  /\ Len(page_reader.log) = 1 + NumPages
  /\ page_reader.log[1].type = "dictionary" /\ page_reader.log[1].ordinal = 0
  /\ page_reader.log[2].type = "data" /\ page_reader.log[2].ordinal = 0
  /\ page_reader.log[1 + NumPages].ordinal = NumPages - 1

-----------------------------------------------------------------------------
(* The reader's cipher instances at Close.                                 *)

(* C25: the cipher instances created for a file reader stay in place while *)
(* the reader is open, and after Close() the reader holds no cipher        *)
(* instance with a live context.                                           *)

C25_CloseWipesCiphers ==
  /\ reader.status = "open" => CiphersOfRun(reader.run) \subseteq reader.ciphers
  /\ reader.status = "closed" => reader.ciphers = {}

-----------------------------------------------------------------------------
(* The reconciliation of the AAD prefix in the two branches.               *)

PrefixErrors == {ErrPrefixDiffer, ErrVerifierRejected, ErrPrefixMissing}

ChecksOf(run) == SelectSeq(run.events, LAMBDA e : e.op = "check")

\* what a reconciliation leaves: its error, the invocations of the verifier
\* and the file AAD that is installed on success
Reconciled(h, algo) ==
  [err |-> IF h.run.err \in PrefixErrors THEN h.run.err ELSE "",
   checks |-> ChecksOf(h.run),
   file_aad |-> IF h.run.err = "" THEN <<h.aad_prefix \o algo.aad.aad_file_unique>>
                ELSE <<>>]

\* what the reconciliation of the reader's run left
ReconciledByRun ==
  [err |-> IF reader.run.err \in PrefixErrors THEN reader.run.err ELSE "",
   checks |-> ChecksOf(reader.run),
   file_aad |-> IF Called(reader.run, "file_aad") THEN <<InstalledFileAad>> ELSE <<>>]

(* C26: the reconciliation of the AAD prefix is the same function in the   *)
(* plaintext-footer branch and in the encrypted-footer branch: for the     *)
(* same stored prefix, supply flag, supplied prefix and verifier the two   *)
(* give the same error or success, the same invocations of the verifier    *)
(* and the same file AAD, and the run of either branch does what that      *)
(* function says.                                                          *)
C26_SameReconciliation ==
  SawAlgorithm =>
    LET plain == HandleAadPrefixPlaintextFooter(NewRun, AlgorithmSeen, ReaderProps)
        enc == HandleAadPrefixEncryptedFooter(NewRun, AlgorithmSeen, ReaderProps)
    IN /\ Reconciled(plain, AlgorithmSeen) = Reconciled(enc, AlgorithmSeen)
       /\ ReconciledByRun = Reconciled(plain, AlgorithmSeen)
       /\ ReconciledByRun = Reconciled(enc, AlgorithmSeen)

C26_Witness ==
  /\ SawAlgorithm /\ reader.run.branch = PARQUET_EMAGIC
  /\ AlgorithmSeen.aad.aad_prefix # NoBytes
  /\ ReaderProps.aad_prefix = AlgorithmSeen.aad.aad_prefix
  /\ ReaderProps.aad_prefix_verifier # <<>>
  /\ Len(ChecksOf(reader.run)) = 1
  /\ Called(reader.run, "file_aad")
  /\ InstalledFileAad = AlgorithmSeen.aad.aad_prefix \o AlgorithmSeen.aad.aad_file_unique
  /\ reader.status = "open"

-----------------------------------------------------------------------------
(* The setters of the file decryptor during one open.                      *)

Setters == {"file_aad", "algorithm", "footer_key_metadata"}

Requests == {"GetFooterDecryptor", "GetFooterSigningEncryptor"}

CallsOf(run, op) == {k \in DOMAIN run.events : run.events[k].op = op}

\* the decryptors that GetColumnPageReader asked of the file decryptor
ColumnDecryptors ==
  UNION {{columns_read[i].page_reader[1].meta_decryptor,
          columns_read[i].page_reader[1].data_decryptor} :
         i \in {c \in ColumnOrdinals : columns_read[c].page_reader # <<>>}} \ {<<>>}

SetOnceInRun ==
  LET run == reader.run IN
  /\ \A s \in Setters :
       /\ Cardinality(CallsOf(run, s)) <= 1
       \* set when the reconciliation of the encrypted file has succeeded
       /\ (SawAlgorithm /\ run.err \notin PrefixErrors)
            => Cardinality(CallsOf(run, s)) = 1
       /\ Called(run, s) =>
            /\ SawAlgorithm /\ run.err \notin PrefixErrors
            /\ \A k \in CallsOf(run, "check") : k < CallIndex(run, s)
       \* before the footer decryptor or the signing encryptor is asked for
       /\ \A q \in Requests : \A k \in CallsOf(run, q) :
            Called(run, s) /\ CallIndex(run, s) < k
  \* what the setters were given is what the decryptor holds
  /\ Called(run, "file_aad") =>
       /\ InstalledFileAad = run.events[CallIndex(run, "file_aad")].arg
       /\ run.file_decryptor[1].algorithm = AlgorithmSeen.algorithm
       /\ run.file_decryptor[1].footer_key_metadata =
            run.events[CallIndex(run, "footer_key_metadata")].arg
  \* a column decryptor is asked for after the three, and carries them
  /\ \A d \in ColumnDecryptors :
       /\ \A s \in Setters : Called(run, s)
       /\ d[1].file_aad = InstalledFileAad
       /\ d[1].algorithm = run.file_decryptor[1].algorithm

\* a step of an open reader leaves the file decryptor as it is
DecryptorKept ==
  reader.status = "open" => reader'.run.file_decryptor = reader.run.file_decryptor

(* C27: during one open of an encrypted file the file AAD, the algorithm   *)
(* and the footer key metadata of the file decryptor are each set exactly  *)
(* once, after the reconciliation of the AAD prefix has succeeded and      *)
(* before the first footer decryptor, footer signing encryptor or column   *)
(* decryptor is asked of it, and they stay as set while the reader lives.  *)
C27_SetOnce == [](SetOnceInRun) /\ [][DecryptorKept]_vars

C27_Witness ==
  /\ reader.status = "open" /\ SawAlgorithm
  /\ reader.run.branch = PARQUET_EMAGIC
  /\ Called(reader.run, "check")
  /\ Called(reader.run, "GetFooterDecryptor")
  /\ \A s \in Setters : Cardinality(CallsOf(reader.run, s)) = 1
  /\ ColumnDecryptors # {}
  /\ \A i \in ColumnOrdinals : columns_read[i].state # "unread"

-----------------------------------------------------------------------------
(* The file decryptor that GetColumnPageReader uses.                       *)

\* GetColumnPageReader has reached column chunk i, which carries crypto
\* metadata
ReachedEncryptedChunk(i) ==
  /\ columns_read[i].state # "unread"
  /\ reader.run.file_metadata[1].row_groups[reader.row_group[1] + 1][i + 1]
       .crypto_metadata # <<>>

(* C29: whenever GetColumnPageReader reaches a column chunk that carries   *)
(* crypto metadata, the file decryptor of the reader has been made,        *)
(* however the reader was obtained.                                        *)
C29_DecryptorInstantiated ==
  \A i \in ColumnOrdinals :
    ReachedEncryptedChunk(i) => reader.run.file_decryptor # <<>>

-----------------------------------------------------------------------------
(* The two public constructors of ColumnEncryptionProperties::Builder.     *)

(* C30: a ColumnEncryptionProperties::Builder made from a column name is   *)
(* the builder made from ColumnPath::FromDotString(name): its column path  *)
(* is that path, its encrypted flag is true, and after any calls of key    *)
(* and key_metadata both build equal properties.                           *)
C30_NameBuilderIsPathBuilder ==
  builder.kind = "ColumnEncryptionBuilders" =>
    /\ builder.by_name.column_path = <<FromDotString(builder.name)>>
    /\ builder.by_name.encrypted
    /\ builder.by_name = builder.by_path
    /\ call.op = "build" => call.built[1] = call.built[2]

====
